---- MODULE Spec2Model ----
(***************************************************************************)
(* Model of the protocol-translation layer of claude-relay-service:        *)
(*   - the unified router (routeToBackend) with its res.write / res.end    *)
(*     interceptors for the Codex (openai) and Gemini backends,            *)
(*   - CodexToOpenAIConverter (stream state machine, tool-name table),     *)
(*   - GeminiToOpenAIConverter (frame reassembly, chunk conversion).       *)
(*                                                                         *)
(* Text is a sequence of tokens.  A token is one character ("d", ":",      *)
(* " ", LF, CR, ...) or an atomic abbreviation of a JSON document or of    *)
(* the literal [DONE]; JSON.parse is the lookup JsonDoc of such a token.   *)
(* Tool names are sequences of one-character strings.                      *)
(***************************************************************************)
EXTENDS Integers, Sequences, FiniteSets, TLC

\* ------------------------------------------------------------------ text
LF == "\n"
CR == "\r"
TAB == "\t"
DONE == "[DONE]"

\* the characters String.prototype.trim() and JSON.parse treat as blank
IsSpace(c) == c \in {" ", LF, CR, TAB}

\* s.slice(from) with a 0-based start index
SliceFrom(s, from) == SubSeq(s, from + 1, Len(s))

\* s.slice(0, n)
SliceTo(s, n) == IF Len(s) > n THEN SubSeq(s, 1, n) ELSE s

\* s.startsWith(p)
StartsWith(s, p) == Len(s) >= Len(p) /\ SubSeq(s, 1, Len(p)) = p

RECURSIVE ReplaceCRLF(_)
\* str.replace(/\r\n/g, '\n')
ReplaceCRLF(s) ==
  IF s = <<>> THEN <<>>
  ELSE IF Len(s) >= 2 /\ s[1] = CR /\ s[2] = LF
       THEN <<LF>> \o ReplaceCRLF(SubSeq(s, 3, Len(s)))
       ELSE <<s[1]>> \o ReplaceCRLF(Tail(s))

RECURSIVE TrimStart(_)
TrimStart(s) ==
  IF s # <<>> /\ IsSpace(s[1]) THEN TrimStart(Tail(s)) ELSE s

RECURSIVE TrimEnd(_)
TrimEnd(s) ==
  IF s # <<>> /\ IsSpace(s[Len(s)]) THEN TrimEnd(SubSeq(s, 1, Len(s) - 1)) ELSE s

\* str.trim()
Trim(s) == TrimEnd(TrimStart(s))

\* buffer.indexOf('\n\n') as a 1-based position, 0 for JavaScript's -1
IndexOfSeparator(s) ==
  LET hits == {i \in 1..(Len(s) - 1) : s[i] = LF /\ s[i + 1] = LF}
  IN IF hits = {} THEN 0 ELSE CHOOSE i \in hits : \A j \in hits : i <= j

RECURSIVE SplitLines(_)
\* event.split('\n')
SplitLines(s) ==
  LET hits == {i \in 1..Len(s) : s[i] = LF}
  IN IF hits = {} THEN <<s>>
     ELSE LET i == CHOOSE k \in hits : \A j \in hits : k <= j
          IN <<SubSeq(s, 1, i - 1)>> \o SplitLines(SubSeq(s, i + 1, Len(s)))

\* the field prefix 'data: '
DataPrefix == <<"d", "a", "t", "a", ":", " ">>

\* ------------------------------------------------- JavaScript objects
\* A plain object literal {} is its own properties plus what it inherits
\* from Object.prototype; obj[key] reads both.
Undefined == <<>>
InheritedFunction == <<"[Function]">>
NameConstructor == <<"c", "o", "n", "s", "t", "r", "u", "c", "t", "o", "r">>
NameToString == <<"t", "o", "S", "t", "r", "i", "n", "g">>
ObjectPrototypeKeys == {NameConstructor, NameToString}

\* the value of the expression obj[key] for an object created by {}
GetProperty(own, key) ==
  IF key \in DOMAIN own THEN own[key]
  ELSE IF key \in ObjectPrototypeKeys THEN InheritedFunction
  ELSE Undefined

\* JavaScript truthiness of a string-or-undefined value
Truthy(v) == v # Undefined

\* obj[key] = value
SetProperty(own, key, value) ==
  [k \in DOMAIN own \cup {key} |-> IF k = key THEN value ELSE own[k]]

EmptyObject == [k \in {} |-> Undefined]

\* ------------------------------------------------------ tool-name table
LIMIT == 64
McpPrefix == <<"m", "c", "p", "_", "_">>

\* n.lastIndexOf('__') as a 0-based index, -1 when absent
LastIndexOfSep(n) ==
  LET hits == {i \in 1..(Len(n) - 1) : n[i] = "_" /\ n[i + 1] = "_"}
  IN IF hits = {} THEN -1
     ELSE (CHOOSE i \in hits : \A j \in hits : i >= j) - 1

DigitChars == <<"0", "1", "2", "3", "4", "5", "6", "7", "8", "9">>

RECURSIVE Decimal(_)
\* `${i}` for i >= 0
Decimal(i) ==
  IF i < 10 THEN <<DigitChars[i + 1]>>
  ELSE Decimal(i \div 10) \o <<DigitChars[(i % 10) + 1]>>

baseCandidate(n) ==
  IF Len(n) <= LIMIT THEN n
  ELSE LET idx == LastIndexOfSep(n)
       IN IF StartsWith(n, McpPrefix) /\ idx > 0
          THEN SliceTo(McpPrefix \o SliceFrom(n, idx + 2), LIMIT)
          ELSE SliceTo(n, LIMIT)

RECURSIVE makeUniqueFrom_noTruncate(_, _, _)
RECURSIVE makeUniqueFrom(_, _, _)
\* the loop `for (let i = 1; ; i++)` of makeUnique
makeUniqueFrom_noTruncate(used, base, i) ==
  LET suffix == <<"_">> \o Decimal(i)
      tmp == base \o suffix
  IN IF tmp \notin used THEN tmp
     ELSE makeUniqueFrom_noTruncate(used, base, i + 1)

makeUniqueFrom(used, base, i) ==
  LET suffix == <<"_">> \o Decimal(i)
      allowed == LIMIT - Len(suffix)
      tmp == SliceTo(base, allowed) \o suffix
  IN IF tmp \notin used THEN tmp ELSE makeUniqueFrom(used, base, i + 1)

makeUnique_noCheck(used, cand) == cand

makeUnique(used, cand) ==
  IF cand \notin used THEN cand ELSE makeUniqueFrom(used, cand, 1)

RECURSIVE buildShortNameLoop(_, _, _)
\* the loop `for (const n of names)` of _buildShortNameMap
buildShortNameLoop(names, used, map) ==
  IF names = <<>> THEN map
  ELSE LET short == makeUnique(used, baseCandidate(names[1]))
       IN buildShortNameLoop(Tail(names), used \cup {short},
                             SetProperty(map, names[1], short))

_buildShortNameMap(names) == buildShortNameLoop(names, {}, EmptyObject)

\* the table of a converter instance: _toolNameMap (undefined until built)
\* and _reverseToolNameMap ({} from the constructor)
NewConverter == [mapBuilt |-> FALSE, _toolNameMap |-> EmptyObject,
                 _reverseToolNameMap |-> EmptyObject]

_shortenToolName(conv, name) ==
  IF ~Truthy(name) THEN name
  ELSE IF conv.mapBuilt /\ Truthy(GetProperty(conv._toolNameMap, name))
       THEN GetProperty(conv._toolNameMap, name)
       ELSE baseCandidate(name)

_restoreToolName(conv, shortName) ==
  IF Truthy(GetProperty(conv._reverseToolNameMap, shortName))
  THEN GetProperty(conv._reverseToolNameMap, shortName)
  ELSE shortName

RECURSIVE Dedupe(_, _)
\* insertion order of a Set built by successive add()
Dedupe(s, seen) ==
  IF s = <<>> THEN <<>>
  ELSE IF s[1] \in seen THEN Dedupe(Tail(s), seen)
       ELSE <<s[1]>> \o Dedupe(Tail(s), seen \cup {s[1]})

RECURSIVE buildReverseLoop(_, _, _)
\* the loop over Object.entries(this._toolNameMap), in insertion order
buildReverseLoop(names, map, rev) ==
  IF names = <<>> THEN rev
  ELSE buildReverseLoop(Tail(names), map,
         IF names[1] # map[names[1]]
         THEN SetProperty(rev, map[names[1]], names[1])
         ELSE rev)

BuildToolNameTable_forwardOnly(conv, tools, toolCalls) ==
  LET allToolNames == Dedupe(tools \o toolCalls, {})
      map == _buildShortNameMap(allToolNames)
  IN IF allToolNames = <<>> THEN conv
     ELSE [mapBuilt |-> TRUE,
           _toolNameMap |-> map,
           _reverseToolNameMap |-> conv._reverseToolNameMap]

\* lines 475-501 of buildRequestFromOpenAI: collect the names of the
\* function tools and of the assistant tool calls, build both maps
BuildToolNameTable(conv, tools, toolCalls) ==
  LET allToolNames == Dedupe(tools \o toolCalls, {})
      map == _buildShortNameMap(allToolNames)
  IN IF allToolNames = <<>> THEN conv
     ELSE [mapBuilt |-> TRUE,
           _toolNameMap |-> map,
           _reverseToolNameMap |->
             buildReverseLoop(allToolNames, map, EmptyObject)]

\* ------------------------------------------------------- emitted items
\* What the interceptor hands to the original res.write, one item per SSE
\* frame.  kind: "chunk" (a chat.completion.chunk), "error" (a literal
\* {error: ...} event), "raw" (`data: ${jsonStr}` forwarded as received),
\* "heartbeat" (a whitespace chunk forwarded as is), "passthrough" (a chunk
\* forwarded unconverted under an error status), "done" (data: [DONE]).
NoTool == [index |-> -1, id |-> <<>>, name |-> Undefined, arguments |-> "",
           announce |-> FALSE]

\* the usage object of a chunk that has none; a details count of 0: the
\* details field is absent
NoUsage == [prompt_tokens |-> 0, completion_tokens |-> 0, total_tokens |-> 0,
            reasoning_tokens |-> 0, cached_tokens |-> 0]

Item(kind) == [kind |-> kind, id |-> "", index |-> 0, role |-> FALSE,
               delta |-> "none", text |-> "", tool |-> NoTool,
               finish_reason |-> "null", usage |-> FALSE, payload |-> <<>>,
               choices |-> <<>>, usage_tokens |-> NoUsage]

RawItem(jsonStr) == [Item("raw") EXCEPT !.payload = jsonStr]
DoneItem == Item("done")

\* --------------------------------------------------- Codex stream events
NoItem == [present |-> FALSE, type |-> "", call_id |-> "", name |-> Undefined,
           arguments |-> ""]
NoResponse == [present |-> FALSE, id |-> "", status |-> "", reason |-> "",
               usage |-> FALSE]

CodexEvent(type) == [type |-> type, error |-> FALSE, item |-> NoItem,
                     delta |-> "", arguments |-> "", output_index |-> -1,
                     response |-> NoResponse]

FunctionCallItem(callId, name, arguments) ==
  [present |-> TRUE, type |-> "function_call", call_id |-> callId,
   name |-> name, arguments |-> arguments]

Response(status, reason, usage) ==
  [present |-> TRUE, id |-> "resp_1", status |-> status, reason |-> reason,
   usage |-> usage]

createStreamState == [responseId |-> "", functionCallIndex |-> -1,
                      hasReceivedArgumentsDelta |-> FALSE,
                      hasToolCallAnnounced |-> FALSE, roleSent |-> FALSE]

_makeChunk(state) ==
  [Item("chunk") EXCEPT
     !.id = IF state.responseId # "" THEN state.responseId ELSE "chatcmpl-now"]

_emitChunk_alwaysRole(state, delta, text, tool) ==
  [state |-> [state EXCEPT !.roleSent = TRUE],
   out |-> <<[_makeChunk(state) EXCEPT !.delta = delta, !.text = text,
                !.tool = tool, !.role = TRUE]>>]

_emitChunk(state, delta, text, tool) ==
  [state |-> [state EXCEPT !.roleSent = TRUE],
   out |-> <<[_makeChunk(state) EXCEPT !.delta = delta, !.text = text,
                !.tool = tool, !.role = ~state.roleSent]>>]

_mapResponseStatus(resp) ==
  IF resp.status = "" \/ resp.status = "completed" THEN "stop"
  ELSE IF resp.status = "incomplete"
       THEN IF resp.reason = "max_output_tokens" THEN "length"
            ELSE IF resp.reason = "content_filter" THEN "content_filter"
            ELSE "length"
       ELSE "stop"

_handleResponseCreated(eventData, state) ==
  [state |-> [state EXCEPT !.responseId = eventData.response.id],
   out |-> <<>>]

NextCallIndex_fromBackend(eventData, state) == eventData.output_index

\* state.functionCallIndex++ : the slot of the call being announced
NextCallIndex(eventData, state) == state.functionCallIndex + 1

_handleOutputItemAdded_noReset(conv, eventData, state) ==
  IF ~eventData.item.present \/ eventData.item.type # "function_call"
  THEN [state |-> state, out |-> <<>>]
  ELSE LET s1 == [state EXCEPT
                    !.functionCallIndex = NextCallIndex(eventData, state),
                    !.hasToolCallAnnounced = TRUE]
       IN _emitChunk(s1, "tool_calls", "",
            [index |-> s1.functionCallIndex, id |-> <<eventData.item.call_id>>,
             name |-> _restoreToolName(conv, eventData.item.name),
             arguments |-> "", announce |-> TRUE])

_handleOutputItemAdded(conv, eventData, state) ==
  IF ~eventData.item.present \/ eventData.item.type # "function_call"
  THEN [state |-> state, out |-> <<>>]
  ELSE LET s1 == [state EXCEPT
                    !.functionCallIndex = NextCallIndex(eventData, state),
                    !.hasReceivedArgumentsDelta = FALSE,
                    !.hasToolCallAnnounced = TRUE]
       IN _emitChunk(s1, "tool_calls", "",
            [index |-> s1.functionCallIndex, id |-> <<eventData.item.call_id>>,
             name |-> _restoreToolName(conv, eventData.item.name),
             arguments |-> "", announce |-> TRUE])

_handleArgumentsDelta(eventData, state) ==
  _emitChunk([state EXCEPT !.hasReceivedArgumentsDelta = TRUE],
             "tool_calls", "",
             [NoTool EXCEPT !.index = state.functionCallIndex,
                            !.arguments = eventData.delta])

_handleArgumentsDone(eventData, state) ==
  IF state.hasReceivedArgumentsDelta
  THEN [state |-> state, out |-> <<>>]
  ELSE _emitChunk(state, "tool_calls", "",
         [NoTool EXCEPT !.index = state.functionCallIndex,
                        !.arguments = IF eventData.arguments # ""
                                      THEN eventData.arguments ELSE "{}"])

_handleOutputItemDone_anyItem(conv, eventData, state) ==
  IF state.hasToolCallAnnounced
  THEN [state |-> [state EXCEPT !.hasToolCallAnnounced = FALSE], out |-> <<>>]
  ELSE LET s1 == [state EXCEPT
                    !.functionCallIndex = NextCallIndex(eventData, state)]
       IN _emitChunk(s1, "tool_calls", "",
            [index |-> s1.functionCallIndex, id |-> <<eventData.item.call_id>>,
             name |-> _restoreToolName(conv, eventData.item.name),
             arguments |-> IF eventData.item.arguments # ""
                           THEN eventData.item.arguments ELSE "{}",
             announce |-> TRUE])

_handleOutputItemDone(conv, eventData, state) ==
  IF ~eventData.item.present \/ eventData.item.type # "function_call"
  THEN [state |-> state, out |-> <<>>]
  ELSE IF state.hasToolCallAnnounced
  THEN [state |-> [state EXCEPT !.hasToolCallAnnounced = FALSE], out |-> <<>>]
  ELSE LET s1 == [state EXCEPT
                    !.functionCallIndex = NextCallIndex(eventData, state)]
       IN _emitChunk(s1, "tool_calls", "",
            [index |-> s1.functionCallIndex, id |-> <<eventData.item.call_id>>,
             name |-> _restoreToolName(conv, eventData.item.name),
             arguments |-> IF eventData.item.arguments # ""
                           THEN eventData.item.arguments ELSE "{}",
             announce |-> TRUE])

\* the terminal chunk of _handleResponseCompleted and of the non-failed
\* branch of _handleResponseError
TerminalChunk(resp, state) ==
  [_makeChunk(state) EXCEPT
     !.finish_reason = IF state.functionCallIndex >= 0 THEN "tool_calls"
                       ELSE _mapResponseStatus(resp),
     !.usage = resp.usage]

_handleResponseCompleted_alwaysStatus(eventData, state) ==
  [state |-> state,
   out |-> <<[TerminalChunk(eventData.response, state) EXCEPT
                !.finish_reason = _mapResponseStatus(eventData.response)]>>]

_handleResponseCompleted(eventData, state) ==
  [state |-> state, out |-> <<TerminalChunk(eventData.response, state)>>]

_handleResponseError(eventData, state) ==
  [state |-> state,
   out |-> IF eventData.response.status = "failed"
           THEN <<Item("error")>>
           ELSE <<TerminalChunk(eventData.response, state)>>]

_handleStreamError(eventData, state) ==
  [state |-> state, out |-> <<Item("error")>>]

\* CodexToOpenAIConverter.convertStreamChunk
CodexConvertStreamChunk(conv, eventData, state) ==
  CASE eventData.type = "" -> [state |-> state, out |-> <<>>]
    [] eventData.type = "response.created" ->
         _handleResponseCreated(eventData, state)
    [] eventData.type = "response.reasoning_summary_text.delta" ->
         _emitChunk(state, "reasoning_content", eventData.delta, NoTool)
    [] eventData.type = "response.reasoning_summary_text.done" ->
         [state |-> state, out |-> <<>>]
    [] eventData.type = "response.output_text.delta" ->
         _emitChunk(state, "content", eventData.delta, NoTool)
    [] eventData.type = "response.output_item.added" ->
         _handleOutputItemAdded(conv, eventData, state)
    [] eventData.type = "response.function_call_arguments.delta" ->
         _handleArgumentsDelta(eventData, state)
    [] eventData.type = "response.function_call_arguments.done" ->
         _handleArgumentsDone(eventData, state)
    [] eventData.type = "response.output_item.done" ->
         _handleOutputItemDone(conv, eventData, state)
    [] eventData.type = "response.completed" ->
         _handleResponseCompleted(eventData, state)
    [] eventData.type \in {"response.failed", "response.incomplete"} ->
         _handleResponseError(eventData, state)
    [] eventData.type = "error" -> _handleStreamError(eventData, state)
    [] OTHER -> [state |-> state, out |-> <<>>]

\* --------------------------------------------------- Gemini conversion
\* A part of a candidate, by the fields the converter tests.
Part == [thoughtSignature |-> FALSE, hasText |-> FALSE, text |-> "",
         thought |-> FALSE, functionCall |-> "", inlineData |-> "none"]
TextPart(t) == [Part EXCEPT !.hasText = TRUE, !.text = t]
ThoughtPart(t) == [Part EXCEPT !.hasText = TRUE, !.text = t, !.thought = TRUE]
FunctionCallPart(name) == [Part EXCEPT !.functionCall = name]
InlineDataPart(d) == [Part EXCEPT !.inlineData = d]
SignaturePart == [Part EXCEPT !.thoughtSignature = TRUE]

\* index -1: the candidate carries no index field; finishReason "": none
Candidate(index, parts, finishReason) ==
  [index |-> index, parts |-> parts, finishReason |-> finishReason]

\* the counts of usageMetadata; 0 also stands for a missing count
UsageCounts(prompt, candidates, thoughts, total) ==
  [promptTokenCount |-> prompt, candidatesTokenCount |-> candidates,
   thoughtsTokenCount |-> thoughts, totalTokenCount |-> total,
   cachedContentTokenCount |-> 0]

\* usageMetadata: the document has the field; counts: its counts
GeminiData(candidates, usageMetadata) ==
  [error |-> FALSE, responseId |-> "", candidates |-> candidates,
   usageMetadata |-> usageMetadata, counts |-> UsageCounts(5, 2, 0, 7)]

GeminiCreateStreamState ==
  [buffer |-> <<>>, id |-> "chatcmpl-now", functionIndex |-> 0,
   candidatesWithFunctionCalls |-> {}, roleSent |-> FALSE]

\* String.prototype.toLowerCase over the finish-reason vocabulary
ToLowerCase(s) ==
  CASE s = "STOP" -> "stop"
    [] s = "Stop" -> "stop"
    [] s = "MAX_TOKENS" -> "max_tokens"
    [] s = "MALFORMED_FUNCTION_CALL" -> "malformed_function_call"
    [] s = "TOO_MANY_TOOL_CALLS" -> "too_many_tool_calls"
    [] s = "UNEXPECTED_TOOL_CALL" -> "unexpected_tool_call"
    [] s = "SAFETY" -> "safety"
    [] s = "RECITATION" -> "recitation"
    [] s = "BLOCKLIST" -> "blocklist"
    [] s = "PROHIBITED_CONTENT" -> "prohibited_content"
    [] s = "SPII" -> "spii"
    [] s = "IMAGE_SAFETY" -> "image_safety"
    [] s = "LANGUAGE" -> "language"
    [] s = "OTHER" -> "other"
    [] s = "FINISH_REASON_UNSPECIFIED" -> "finish_reason_unspecified"
    [] s = "NEW_REASON" -> "new_reason"
    [] OTHER -> s

_mapFinishReason_passThrough(geminiReason) == ToLowerCase(geminiReason)

_mapFinishReason(geminiReason) ==
  LET fr == ToLowerCase(geminiReason)
  IN IF fr = "stop" THEN "stop"
     ELSE IF fr = "max_tokens" THEN "length"
     ELSE IF fr \in {"malformed_function_call", "too_many_tool_calls",
                     "unexpected_tool_call"} THEN "stop"
     ELSE IF fr \in {"safety", "recitation", "blocklist",
                     "prohibited_content", "spii", "image_safety",
                     "language"} THEN "content_filter"
     ELSE "stop"

GeminiMakeChunk(state) == [Item("chunk") EXCEPT !.id = state.id]

\* _injectRole applied to the delta of `chunk`
_injectRole(state, chunk) ==
  [state |-> [state EXCEPT !.roleSent = TRUE],
   chunk |-> [chunk EXCEPT !.role = ~state.roleSent]]

\* the part is a bare thoughtSignature (lines 232-240)
IsSignatureOnly_never(part) == FALSE

IsSignatureOnly(part) ==
  /\ part.thoughtSignature
  /\ ~(part.hasText /\ part.text # "")
  /\ part.functionCall = ""
  /\ part.inlineData = "none"

\* the index of the tool call being emitted: state.functionIndex
GeminiToolIndex(state, candidateIndex) == state.functionIndex

\* one iteration of `for (const part of parts)` (lines 231-289)
ConvertPart(acc, part, candidateIndex) ==
  LET state == acc.state
      chunk == [GeminiMakeChunk(state) EXCEPT !.index = candidateIndex]
  IN IF IsSignatureOnly(part) THEN acc
     ELSE IF part.functionCall # ""
     THEN LET idx == GeminiToolIndex(state, candidateIndex)
              s1 == [state EXCEPT !.candidatesWithFunctionCalls =
                                     @ \cup {candidateIndex}]
              r == _injectRole(s1,
                     [chunk EXCEPT !.delta = "tool_calls",
                        !.tool = [index |-> idx,
                                  id |-> <<part.functionCall, "-now-",
                                           ToString(state.functionIndex)>>,
                                  name |-> <<part.functionCall>>,
                                  arguments |-> "{}", announce |-> TRUE]])
          IN [state |-> [r.state EXCEPT !.functionIndex = @ + 1],
              out |-> Append(acc.out, r.chunk)]
     ELSE IF part.hasText
     THEN LET r == _injectRole(state,
                     [chunk EXCEPT
                        !.delta = IF part.thought THEN "reasoning_content"
                                  ELSE "content",
                        !.text = part.text])
          IN [state |-> r.state, out |-> Append(acc.out, r.chunk)]
     ELSE IF part.inlineData = "data"
     THEN LET r == _injectRole(state, [chunk EXCEPT !.delta = "images"])
          IN [state |-> r.state, out |-> Append(acc.out, r.chunk)]
     ELSE acc

RECURSIVE ConvertParts(_, _, _)
ConvertParts(acc, parts, candidateIndex) ==
  IF parts = <<>> THEN acc
  ELSE ConvertParts(ConvertPart(acc, parts[1], candidateIndex), Tail(parts),
                    candidateIndex)

FinishChunk_anyCandidate(state, candidate, candidateIndex, usageMetadata) ==
  [GeminiMakeChunk(state) EXCEPT
     !.index = candidateIndex,
     !.finish_reason =
        IF state.candidatesWithFunctionCalls # {}
        THEN "tool_calls" ELSE _mapFinishReason(candidate.finishReason),
     !.usage = usageMetadata]

\* the finish_reason chunk of a candidate (lines 291-307)
FinishChunk(state, candidate, candidateIndex, usageMetadata) ==
  [GeminiMakeChunk(state) EXCEPT
     !.index = candidateIndex,
     !.finish_reason =
        IF candidateIndex \in state.candidatesWithFunctionCalls
        THEN "tool_calls" ELSE _mapFinishReason(candidate.finishReason),
     !.usage = usageMetadata]

RECURSIVE ConvertCandidates(_, _, _, _)
\* `for (let i = 0; i < candidates.length; i++)` (lines 226-308)
ConvertCandidates(acc, candidates, i, usageMetadata) ==
  IF i >= Len(candidates) THEN acc
  ELSE LET candidate == candidates[i + 1]
           candidateIndex == IF candidate.index # -1 THEN candidate.index ELSE i
           a1 == ConvertParts(acc, candidate.parts, candidateIndex)
           a2 == IF candidate.finishReason # ""
                 THEN [state |-> a1.state,
                       out |-> Append(a1.out,
                                 FinishChunk(a1.state, candidate,
                                             candidateIndex, usageMetadata))]
                 ELSE a1
       IN ConvertCandidates(a2, candidates, i + 1, usageMetadata)

GeminiMapUsage_swapped(meta) ==
  [prompt_tokens |-> meta.candidatesTokenCount + meta.thoughtsTokenCount,
   completion_tokens |-> meta.promptTokenCount,
   total_tokens |-> meta.totalTokenCount,
   reasoning_tokens |-> meta.thoughtsTokenCount,
   cached_tokens |-> meta.cachedContentTokenCount]

\* GeminiToOpenAIConverter._mapUsage of a usageMetadata that is present
GeminiMapUsage(meta) ==
  [prompt_tokens |-> meta.promptTokenCount,
   completion_tokens |-> meta.candidatesTokenCount + meta.thoughtsTokenCount,
   total_tokens |-> meta.totalTokenCount,
   reasoning_tokens |-> meta.thoughtsTokenCount,
   cached_tokens |-> meta.cachedContentTokenCount]

\* chunk.usage = this._mapUsage(data.usageMetadata) of the chunks that
\* carry usage (lines 221 and 303)
AttachUsage(out, data) ==
  [i \in DOMAIN out |->
     IF out[i].usage
     THEN [out[i] EXCEPT !.usage_tokens = GeminiMapUsage(data.counts)]
     ELSE out[i]]

\* the chunk of a frame with usageMetadata and no candidates (lines 217-223)
UsageOnlyChunk_noReason(state) == [GeminiMakeChunk(state) EXCEPT !.usage = TRUE]

UsageOnlyChunk(state) ==
  [GeminiMakeChunk(state) EXCEPT !.finish_reason = "stop", !.usage = TRUE]

\* chunk.usage = this._mapUsage(data.usageMetadata) (lines 221, 302-304)
WithUsage(r, data) == [state |-> r.state, out |-> AttachUsage(r.out, data)]

_convertGeminiChunkToOpenAI(data, state) ==
  LET s1 == IF data.responseId # "" THEN [state EXCEPT !.id = data.responseId]
            ELSE state
  IN WithUsage(IF data.candidates = <<>> /\ data.usageMetadata
               THEN [state |-> s1, out |-> <<UsageOnlyChunk(s1)>>]
               ELSE ConvertCandidates([state |-> s1, out |-> <<>>],
                                      data.candidates, 0, data.usageMetadata),
               data)

\* finish_reason of a choice of GeminiToOpenAIConverter.convertResponse
\* (lines 166-171); nToolCalls is toolCalls.length
GeminiMessageFinishReason(candidate, nToolCalls) ==
  IF nToolCalls > 0 THEN "tool_calls"
  ELSE IF candidate.finishReason # ""
       THEN _mapFinishReason(candidate.finishReason)
       ELSE "stop"

\* finishReason of CodexToOpenAIConverter.convertResponse (line 135)
CodexMessageFinishReason(resp, nToolCalls) ==
  IF nToolCalls > 0 THEN "tool_calls" ELSE _mapResponseStatus(resp)

\* ------------------------------------------------ non-streaming answers
\* JSON null, where an object is expected
Null == [null |-> TRUE]
IsNull(v) == DOMAIN v = {"null"}

\* message of a chat.completion choice.  content <<>> with contentNull:
\* content is null; texts are kept as the list of the joined pieces
Message ==
  [index |-> 0, contentNull |-> TRUE, content |-> <<>>,
   reasoning_content |-> <<>>, tool_calls |-> <<>>, images |-> <<>>,
   finish_reason |-> "stop"]

\* an item of resp.output: type, the texts of its summary_text /
\* output_text entries, and the fields of a function_call
OutputItem(type, texts) ==
  [type |-> type, texts |-> texts, call_id |-> "", name |-> Undefined,
   arguments |-> ""]
OutputCall(callId, name, arguments) ==
  [type |-> "function_call", texts |-> <<>>, call_id |-> callId,
   name |-> name, arguments |-> arguments]

\* the data given to the openai res.json: its type and object fields, the
\* object convertResponse reads as resp (data.response under
\* type response.completed, else data itself) and resp.output
CodexJson(type, object, resp, output) ==
  [type |-> type, object |-> object, resp |-> resp, output |-> output]

RECURSIVE CodexOutputLoop(_, _, _)
\* `for (const item of output)` of convertResponse (lines 92-117)
CodexOutputLoop(conv, output, acc) ==
  IF output = <<>> \/ acc.threw THEN acc
  ELSE LET item == output[1]
           next ==
             IF IsNull(item) THEN [acc EXCEPT !.threw = TRUE]
             ELSE IF item.type = "reasoning"
             THEN IF item.texts # <<>>
                  THEN [acc EXCEPT !.message.reasoning_content =
                                      @ \o item.texts]
                  ELSE acc
             ELSE IF item.type = "message"
             THEN IF item.texts # <<>>
                  THEN [acc EXCEPT !.message.content = @ \o item.texts,
                                   !.message.contentNull = FALSE]
                  ELSE acc
             ELSE IF item.type = "function_call"
             THEN [acc EXCEPT !.message.tool_calls =
                     Append(@, [id |-> <<item.call_id>>,
                                name |-> _restoreToolName(conv, item.name),
                                arguments |-> IF item.arguments = ""
                                              THEN "{}"
                                              ELSE item.arguments])]
             ELSE acc
       IN CodexOutputLoop(conv, Tail(output), next)

CodexConvertResponse_failedWithoutCalls(conv, data) ==
  IF ~data.resp.present
  THEN [threw |-> TRUE, out |-> Item("none")]
  ELSE LET resp == data.resp
           acc == CodexOutputLoop(conv, data.output,
                                  [threw |-> FALSE, message |-> Message])
           nToolCalls == Len(acc.message.tool_calls)
       IN IF acc.threw THEN [threw |-> TRUE, out |-> Item("none")]
          ELSE IF resp.status = "failed" /\ nToolCalls = 0
          THEN [threw |-> FALSE, out |-> Item("error")]
          ELSE [threw |-> FALSE,
                out |-> [Item("completion") EXCEPT
                           !.id = resp.id,
                           !.choices =
                              <<[acc.message EXCEPT !.finish_reason =
                                   CodexMessageFinishReason(resp,
                                                            nToolCalls)]>>,
                           !.usage = resp.usage]]

\* CodexToOpenAIConverter.convertResponse: [threw, out]
CodexConvertResponse(conv, data) ==
  IF ~data.resp.present
  THEN [threw |-> TRUE, out |-> Item("none")]
  ELSE LET resp == data.resp
           acc == CodexOutputLoop(conv, data.output,
                                  [threw |-> FALSE, message |-> Message])
           nToolCalls == Len(acc.message.tool_calls)
       IN IF acc.threw THEN [threw |-> TRUE, out |-> Item("none")]
          ELSE IF resp.status = "failed"
          THEN [threw |-> FALSE, out |-> Item("error")]
          ELSE [threw |-> FALSE,
                out |-> [Item("completion") EXCEPT
                           !.id = resp.id,
                           !.choices =
                              <<[acc.message EXCEPT !.finish_reason =
                                   CodexMessageFinishReason(resp,
                                                            nToolCalls)]>>,
                           !.usage = resp.usage]]

RECURSIVE GeminiPartsLoop(_, _)
\* `for (const part of parts)` of convertResponse (lines 109-148)
GeminiPartsLoop(parts, acc) ==
  IF parts = <<>> \/ acc.threw THEN acc
  ELSE LET part == parts[1]
           next ==
             IF IsNull(part) THEN [acc EXCEPT !.threw = TRUE]
             ELSE IF IsSignatureOnly(part) THEN acc
             ELSE IF part.functionCall # ""
             THEN [acc EXCEPT !.message.tool_calls =
                     Append(@, [id |-> <<part.functionCall, "-now-",
                                         ToString(Len(@))>>,
                                name |-> <<part.functionCall>>,
                                arguments |-> "{}"])]
             ELSE IF part.hasText
             THEN IF part.thought
                  THEN [acc EXCEPT !.message.reasoning_content =
                                      Append(@, part.text)]
                  ELSE [acc EXCEPT !.message.content = Append(@, part.text),
                                   !.message.contentNull = FALSE]
             ELSE IF part.inlineData = "data"
             THEN [acc EXCEPT !.message.images = Append(@, Len(@))]
             ELSE acc
       IN GeminiPartsLoop(Tail(parts), next)

RECURSIVE GeminiChoices(_, _, _)
\* `candidates.map((candidate, i) => ...)` of convertResponse (101-178)
GeminiChoices(candidates, i, acc) ==
  IF i >= Len(candidates) \/ acc.threw THEN acc
  ELSE LET candidate == candidates[i + 1]
       IN IF IsNull(candidate) THEN [acc EXCEPT !.threw = TRUE]
          ELSE LET a == GeminiPartsLoop(candidate.parts,
                          [threw |-> FALSE, message |-> Message])
                   choice ==
                     [a.message EXCEPT
                        !.index = IF candidate.index # -1
                                  THEN candidate.index ELSE i,
                        !.finish_reason =
                           GeminiMessageFinishReason(
                             candidate, Len(a.message.tool_calls))]
               IN GeminiChoices(candidates, i + 1,
                    IF a.threw THEN [acc EXCEPT !.threw = TRUE]
                    ELSE [acc EXCEPT !.choices = Append(@, choice)])

\* GeminiToOpenAIConverter.convertResponse: [threw, out]
GeminiConvertResponse(data) ==
  LET acc == GeminiChoices(data.candidates, 0,
                           [threw |-> FALSE, choices |-> <<>>])
  IN IF acc.threw THEN [threw |-> TRUE, out |-> Item("none")]
     ELSE [threw |-> FALSE,
           out |-> [Item("completion") EXCEPT
                      !.id = IF data.responseId # "" THEN data.responseId
                             ELSE "chatcmpl-now",
                      !.choices = acc.choices,
                      !.usage = data.usageMetadata,
                      !.usage_tokens = IF data.usageMetadata
                                       THEN GeminiMapUsage(data.counts)
                                       ELSE NoUsage]]

\* ------------------------------------------------------- JSON documents
\* Each token abbreviates one JSON document a backend can send; JSON.parse
\* of a payload succeeds exactly when, blanks aside, it is one such token.
Rep(c, n) == [i \in 1..n |-> c]

\* tool names as the backend returns them (shortened names)
ShortA == Rep("a", LIMIT)
ShortF == <<"f">>

CodexTokens ==
  {"{created}", "{reasoning.delta}", "{reasoning.done}", "{text.delta}",
   "{added A}", "{added B}", "{added message}", "{args.delta}", "{args.done}",
   "{done A}", "{done B}", "{completed}", "{completed no usage}",
   "{completed length}", "{incomplete}",
   "{incomplete filter}", "{incomplete other}", "{failed}", "{cancelled}",
   "{error event}", "{error field}", "{unknown}", "{no type}",
   "{args.delta y}", "{args.delta z}", "{args.done z}", "{done B z}",
   "{added none}", "{done none}", "{done message}"}

CodexDoc(tok) ==
  CASE tok = "{created}" ->
         [CodexEvent("response.created") EXCEPT
            !.response = Response("in_progress", "", FALSE)]
    [] tok = "{reasoning.delta}" ->
         [CodexEvent("response.reasoning_summary_text.delta") EXCEPT
            !.delta = "think"]
    [] tok = "{reasoning.done}" ->
         CodexEvent("response.reasoning_summary_text.done")
    [] tok = "{text.delta}" ->
         [CodexEvent("response.output_text.delta") EXCEPT !.delta = "Hi"]
    [] tok = "{added A}" ->
         [CodexEvent("response.output_item.added") EXCEPT
            !.item = FunctionCallItem("call_A", ShortA, ""),
            !.output_index = 7]
    [] tok = "{added B}" ->
         [CodexEvent("response.output_item.added") EXCEPT
            !.item = FunctionCallItem("call_B", ShortF, ""),
            !.output_index = 3]
    [] tok = "{added message}" ->
         [CodexEvent("response.output_item.added") EXCEPT
            !.item = [NoItem EXCEPT !.present = TRUE, !.type = "message"],
            !.output_index = 0]
    [] tok = "{args.delta}" ->
         [CodexEvent("response.function_call_arguments.delta") EXCEPT
            !.delta = "x", !.output_index = 7]
    [] tok = "{args.done}" ->
         [CodexEvent("response.function_call_arguments.done") EXCEPT
            !.arguments = "xy", !.output_index = 7]
    [] tok = "{done A}" ->
         [CodexEvent("response.output_item.done") EXCEPT
            !.item = FunctionCallItem("call_A", ShortA, "xy"),
            !.output_index = 7]
    [] tok = "{done B}" ->
         [CodexEvent("response.output_item.done") EXCEPT
            !.item = FunctionCallItem("call_B", ShortF, ""),
            !.output_index = 3]
    [] tok = "{args.delta y}" ->
         [CodexEvent("response.function_call_arguments.delta") EXCEPT
            !.delta = "y", !.output_index = 7]
    [] tok = "{args.delta z}" ->
         [CodexEvent("response.function_call_arguments.delta") EXCEPT
            !.delta = "z", !.output_index = 3]
    [] tok = "{args.done z}" ->
         [CodexEvent("response.function_call_arguments.done") EXCEPT
            !.arguments = "z", !.output_index = 3]
    [] tok = "{done B z}" ->
         [CodexEvent("response.output_item.done") EXCEPT
            !.item = FunctionCallItem("call_B", ShortF, "z"),
            !.output_index = 3]
    [] tok = "{added none}" -> CodexEvent("response.output_item.added")
    [] tok = "{done none}" -> CodexEvent("response.output_item.done")
    [] tok = "{done message}" ->
         [CodexEvent("response.output_item.done") EXCEPT
            !.item = [NoItem EXCEPT !.present = TRUE, !.type = "message"],
            !.output_index = 0]
    [] tok = "{completed}" ->
         [CodexEvent("response.completed") EXCEPT
            !.response = Response("completed", "", TRUE)]
    [] tok = "{completed no usage}" ->
         [CodexEvent("response.completed") EXCEPT
            !.response = Response("completed", "", FALSE)]
    [] tok = "{completed length}" ->
         [CodexEvent("response.completed") EXCEPT
            !.response = Response("incomplete", "max_output_tokens", TRUE)]
    [] tok = "{incomplete}" ->
         [CodexEvent("response.incomplete") EXCEPT
            !.response = Response("incomplete", "max_output_tokens", TRUE)]
    [] tok = "{incomplete filter}" ->
         [CodexEvent("response.incomplete") EXCEPT
            !.response = Response("incomplete", "content_filter", FALSE)]
    [] tok = "{incomplete other}" ->
         [CodexEvent("response.incomplete") EXCEPT
            !.response = Response("incomplete", "", FALSE)]
    [] tok = "{failed}" ->
         [CodexEvent("response.failed") EXCEPT
            !.response = Response("failed", "", FALSE)]
    [] tok = "{cancelled}" ->
         [CodexEvent("response.completed") EXCEPT
            !.response = Response("cancelled", "", FALSE)]
    [] tok = "{error event}" -> CodexEvent("error")
    [] tok = "{error field}" -> [CodexEvent("") EXCEPT !.error = TRUE]
    [] tok = "{unknown}" -> CodexEvent("response.in_progress")
    [] tok = "{no type}" -> CodexEvent("")

GeminiTokens ==
  {"{g text}", "{g thought}", "{g call}", "{g call c1}", "{g image}",
   "{g signature}", "{g signature empty}", "{g signature+text}",
   "{g finish}", "{g finish 11}", "{g finish max}", "{g finish safety}",
   "{g finish c1}",
   "{g finish new}", "{g text+finish}", "{g call+finish}", "{g usage}",
   "{g empty}", "{g two}", "{g same call}", "{g two calls}", "{g error}"}

GeminiDoc(tok) ==
  CASE tok = "{g text}" ->
         GeminiData(<<Candidate(-1, <<TextPart("Hi")>>, "")>>, FALSE)
    [] tok = "{g thought}" ->
         GeminiData(<<Candidate(-1, <<ThoughtPart("think")>>, "")>>, FALSE)
    [] tok = "{g call}" ->
         GeminiData(<<Candidate(-1, <<FunctionCallPart("f")>>, "")>>, FALSE)
    [] tok = "{g call c1}" ->
         GeminiData(<<Candidate(1, <<FunctionCallPart("g")>>, "")>>, FALSE)
    [] tok = "{g image}" ->
         GeminiData(<<Candidate(-1, <<InlineDataPart("data")>>, "")>>, FALSE)
    [] tok = "{g signature}" ->
         GeminiData(<<Candidate(-1, <<SignaturePart>>, "")>>, FALSE)
    [] tok = "{g signature empty}" ->
         GeminiData(<<Candidate(-1, <<[SignaturePart EXCEPT !.hasText = TRUE]>>,
                                "")>>, FALSE)
    [] tok = "{g signature+text}" ->
         GeminiData(<<Candidate(-1, <<SignaturePart, TextPart("Hi")>>, "")>>,
                    FALSE)
    [] tok = "{g finish}" ->
         GeminiData(<<Candidate(-1, <<>>, "STOP")>>, TRUE)
    [] tok = "{g finish 11}" ->
         [GeminiData(<<Candidate(-1, <<>>, "STOP")>>, TRUE)
            EXCEPT !.counts = UsageCounts(11, 4, 0, 15)]
    [] tok = "{g finish max}" ->
         GeminiData(<<Candidate(-1, <<>>, "MAX_TOKENS")>>, FALSE)
    [] tok = "{g finish safety}" ->
         [GeminiData(<<Candidate(0, <<>>, "SAFETY")>>, TRUE)
            EXCEPT !.counts = UsageCounts(9, 0, 0, 9)]
    [] tok = "{g finish c1}" ->
         GeminiData(<<Candidate(1, <<>>, "SAFETY")>>, FALSE)
    [] tok = "{g finish new}" ->
         GeminiData(<<Candidate(-1, <<>>, "NEW_REASON")>>, FALSE)
    [] tok = "{g text+finish}" ->
         GeminiData(<<Candidate(-1, <<TextPart("Hi")>>, "Stop")>>, TRUE)
    [] tok = "{g call+finish}" ->
         GeminiData(<<Candidate(-1, <<FunctionCallPart("f")>>, "STOP")>>,
                    TRUE)
    [] tok = "{g usage}" ->
         [GeminiData(<<>>, TRUE) EXCEPT !.counts = UsageCounts(5, 2, 3, 10)]
    [] tok = "{g empty}" -> GeminiData(<<>>, FALSE)
    [] tok = "{g two}" ->
         GeminiData(<<Candidate(-1, <<FunctionCallPart("f")>>, "STOP"),
                      Candidate(-1, <<TextPart("Hi")>>, "MAX_TOKENS")>>,
                    FALSE)
    [] tok = "{g same call}" ->
         GeminiData(<<Candidate(-1, <<FunctionCallPart("f")>>, "STOP"),
                      Candidate(-1, <<FunctionCallPart("f")>>, "STOP")>>,
                    FALSE)
    [] tok = "{g two calls}" ->
         GeminiData(<<Candidate(-1, <<FunctionCallPart("f"),
                                      FunctionCallPart("f")>>, "STOP")>>,
                    FALSE)
    [] tok = "{g error}" -> [GeminiData(<<>>, FALSE) EXCEPT !.error = TRUE]

\* the data a backend handler gives to res.json, openai branch
CodexJsonTokens ==
  {"{j completed}", "{j response}", "{j incomplete}", "{j failed}",
   "{j null item}", "{j no response}", "{j other}", "{j null}"}

CodexJsonDoc(tok) ==
  CASE tok = "{j completed}" ->
         CodexJson("response.completed", "", Response("completed", "", TRUE),
                   <<OutputItem("message", <<"Hi">>)>>)
    [] tok = "{j response}" ->
         CodexJson("", "response", Response("completed", "", FALSE),
                   <<OutputItem("reasoning", <<"think">>),
                     OutputCall("call_1", ShortA, "")>>)
    [] tok = "{j incomplete}" ->
         CodexJson("", "response",
                   Response("incomplete", "max_output_tokens", TRUE),
                   <<OutputItem("message", <<"Hi", "!">>)>>)
    [] tok = "{j failed}" ->
         CodexJson("response.completed", "", Response("failed", "", FALSE),
                   <<>>)
    [] tok = "{j failed call}" ->
         CodexJson("", "response", Response("failed", "", TRUE),
                   <<OutputItem("message", <<"Hi">>),
                     OutputCall("call_1", ShortA, "{}")>>)
    [] tok = "{j incomplete call}" ->
         CodexJson("response.completed", "",
                   Response("incomplete", "max_output_tokens", FALSE),
                   <<OutputCall("call_1", ShortA, "{}")>>)
    [] tok = "{j filter}" ->
         CodexJson("", "response",
                   Response("incomplete", "content_filter", FALSE),
                   <<OutputItem("message", <<>>)>>)
    [] tok = "{j cancelled}" ->
         CodexJson("response.completed", "", Response("cancelled", "", FALSE),
                   <<OutputItem("reasoning", <<"think">>)>>)
    [] tok = "{j null item}" ->
         CodexJson("", "response", Response("completed", "", FALSE),
                   <<Null>>)
    [] tok = "{j no response}" ->
         CodexJson("response.completed", "", NoResponse, <<>>)
    [] tok = "{j other}" -> CodexJson("", "list", NoResponse, <<>>)
    [] tok = "{j null}" -> Null

\* the data a backend handler gives to res.json, gemini branch; a document
\* of GeminiDoc with candidates <<>> has no candidates field
GeminiJsonTokens ==
  {"{g text+finish}", "{g two}", "{g signature}", "{g image}", "{g thought}",
   "{g usage}", "{g error}", "{g null candidate}", "{g null part}",
   "{g same call}", "{g two calls}"}

GeminiJsonDoc(tok) ==
  CASE tok = "{g null candidate}" -> GeminiData(<<Null>>, FALSE)
    [] tok = "{g null part}" ->
         GeminiData(<<Candidate(-1, <<TextPart("Hi"), Null>>, "STOP")>>,
                    TRUE)
    [] OTHER -> GeminiDoc(tok)

\* what res.json hands to the original res.json unconverted
JsonItem(tok) == [Item("json") EXCEPT !.payload = <<tok>>]

\* the patched res.json of the openai branch (lines 194-207): [threw, out]
CodexJsonHandler(conv, status, tok) ==
  LET data == CodexJsonDoc(tok)
  IN IF status >= 400 THEN [threw |-> FALSE, out |-> JsonItem(tok)]
     ELSE IF ~IsNull(data)
             /\ (data.type = "response.completed" \/ data.object = "response")
     THEN LET c == CodexConvertResponse(conv, data)
          IN IF c.threw THEN [threw |-> FALSE, out |-> JsonItem(tok)]
             ELSE c
     ELSE [threw |-> FALSE, out |-> JsonItem(tok)]

GeminiJsonHandler_noStatusCheck(status, tok) ==
  LET data == GeminiJsonDoc(tok)
  IN IF data.candidates # <<>> THEN GeminiConvertResponse(data)
     ELSE [threw |-> FALSE, out |-> JsonItem(tok)]

\* the patched res.json of the gemini branch (lines 316-324): [threw, out]
GeminiJsonHandler(status, tok) ==
  LET data == GeminiJsonDoc(tok)
  IN IF status >= 400 THEN [threw |-> FALSE, out |-> JsonItem(tok)]
     ELSE IF data.candidates # <<>> THEN GeminiConvertResponse(data)
     ELSE [threw |-> FALSE, out |-> JsonItem(tok)]

\* JSON.parse(jsonStr): the token it holds, or "" when it throws
JsonParse(jsonStr, tokens) ==
  LET t == Trim(jsonStr)
  IN IF Len(t) = 1 /\ t[1] \in tokens THEN t[1] ELSE ""

\* ------------------------------------------- Codex res.write / res.end
\* the body of `for (const line of lines)` in the openai interceptors
CodexProcessLine(conv, acc, line) ==
  IF ~StartsWith(line, DataPrefix) THEN acc
  ELSE LET jsonStr == SliceFrom(line, 6)
           tok == JsonParse(jsonStr, CodexTokens)
       IN IF jsonStr = <<>> \/ jsonStr = <<DONE>> THEN acc
          ELSE IF tok = "" THEN [acc EXCEPT !.out = Append(@, RawItem(jsonStr))]
          ELSE IF CodexDoc(tok).error
          THEN [acc EXCEPT !.out = Append(@, RawItem(jsonStr))]
          ELSE LET r == CodexConvertStreamChunk(conv, CodexDoc(tok), acc.state)
               IN [state |-> r.state, out |-> acc.out \o r.out]

RECURSIVE CodexProcessLines(_, _, _)
CodexProcessLines(conv, acc, lines) ==
  IF lines = <<>> THEN acc
  ELSE CodexProcessLines(conv, CodexProcessLine(conv, acc, lines[1]),
                         Tail(lines))

RECURSIVE CodexDrain(_, _, _)
\* `while ((idx = sseBuffer.data.indexOf('\n\n')) !== -1)` of res.write
CodexDrain(conv, data, acc) ==
  LET idx == IndexOfSeparator(data)
  IN IF idx = 0 THEN [data |-> data, state |-> acc.state, out |-> acc.out]
     ELSE LET event == SubSeq(data, 1, idx - 1)
              rest == SubSeq(data, idx + 2, Len(data))
          IN IF Trim(event) = <<>> THEN CodexDrain(conv, rest, acc)
             ELSE CodexDrain(conv, rest,
                    CodexProcessLines(conv, acc, SplitLines(event)))

\* chunk.toString().replace(/\r\n/g, '\n') of the openai interceptors
CodexNormalize(chunk) == ReplaceCRLF(chunk)

\* the converting branch of the patched res.write (statusCode < 400):
\* the new buffer, the new stream state and the frames written
CodexWrite(conv, data, state, chunk) ==
  CodexDrain(conv, data \o CodexNormalize(chunk),
             [state |-> state, out |-> <<>>])

CodexEnd_noFlush(conv, data, state, chunk) ==
  [data |-> data, state |-> state, out |-> <<DoneItem>>]

\* the converting branch of the patched res.end (statusCode < 400)
CodexEnd(conv, data, state, chunk) ==
  LET d1 == IF chunk # <<>> THEN data \o CodexNormalize(chunk) ELSE data
      acc == IF Trim(d1) # <<>>
             THEN CodexProcessLines(conv, [state |-> state, out |-> <<>>],
                                    SplitLines(d1 \o <<LF, LF>>))
             ELSE [state |-> state, out |-> <<>>]
  IN [data |-> IF Trim(d1) # <<>> THEN <<>> ELSE d1,
      state |-> acc.state,
      out |-> Append(acc.out, DoneItem)]

\* ------------------------------------------ Gemini convertStreamChunk
GeminiProcessLine(acc, line) ==
  IF ~StartsWith(line, DataPrefix) THEN acc
  ELSE LET jsonStr == Trim(SliceFrom(line, 6))
           tok == JsonParse(jsonStr, GeminiTokens)
       IN IF jsonStr = <<>> \/ jsonStr = <<DONE>> THEN acc
          ELSE IF tok = "" THEN [acc EXCEPT !.out = Append(@, RawItem(jsonStr))]
          ELSE IF GeminiDoc(tok).error
          THEN [acc EXCEPT !.out = Append(@, RawItem(jsonStr))]
          ELSE LET r == _convertGeminiChunkToOpenAI(GeminiDoc(tok), acc.state)
               IN [state |-> r.state, out |-> acc.out \o r.out]

RECURSIVE GeminiProcessLines(_, _)
GeminiProcessLines(acc, lines) ==
  IF lines = <<>> THEN acc
  ELSE GeminiProcessLines(GeminiProcessLine(acc, lines[1]), Tail(lines))

GeminiDrain_once(acc) ==
  LET buffer == acc.state.buffer
      idx == IndexOfSeparator(buffer)
  IN IF idx = 0 THEN acc
     ELSE LET event == SubSeq(buffer, 1, idx - 1)
              a1 == [acc EXCEPT !.state.buffer =
                                   SubSeq(buffer, idx + 2, Len(buffer))]
          IN IF Trim(event) = <<>> THEN a1
             ELSE GeminiProcessLines(a1, SplitLines(event))

RECURSIVE GeminiDrain(_)
\* `while ((idx = state.buffer.indexOf('\n\n')) !== -1)`
GeminiDrain(acc) ==
  LET buffer == acc.state.buffer
      idx == IndexOfSeparator(buffer)
  IN IF idx = 0 THEN acc
     ELSE LET event == SubSeq(buffer, 1, idx - 1)
              a1 == [acc EXCEPT !.state.buffer =
                                   SubSeq(buffer, idx + 2, Len(buffer))]
          IN IF Trim(event) = <<>> THEN GeminiDrain(a1)
             ELSE GeminiDrain(GeminiProcessLines(a1, SplitLines(event)))

\* GeminiToOpenAIConverter.convertStreamChunk: the new state and the
\* returned string as its frames (<<>> for null or an empty string)
GeminiConvertStreamChunk(rawChunk, state) ==
  LET str == ReplaceCRLF(rawChunk)
  IN IF Trim(str) = <<>> /\ state.buffer = <<>>
     THEN [state |-> state,
           out |-> IF str = <<>> THEN <<>>
                   ELSE <<[Item("heartbeat") EXCEPT !.payload = str]>>]
     ELSE GeminiDrain([state |-> [state EXCEPT !.buffer = @ \o str],
                       out |-> <<>>])

\* the converting branch of the patched Gemini res.end (statusCode < 400):
\* `writes` lists the output of each geminiOriginalWrite call
GeminiEnd_noFlush(state, chunk) ==
  LET r1 == IF chunk # <<>> THEN GeminiConvertStreamChunk(chunk, state)
            ELSE [state |-> state, out |-> <<>>]
  IN [state |-> r1.state,
      writes |-> (IF r1.out # <<>> THEN <<r1.out>> ELSE <<>>)
                 \o <<(<<DoneItem>>)>>]

GeminiEnd(state, chunk) ==
  LET r1 == IF chunk # <<>> THEN GeminiConvertStreamChunk(chunk, state)
            ELSE [state |-> state, out |-> <<>>]
      r2 == IF Trim(r1.state.buffer) # <<>>
            THEN GeminiConvertStreamChunk(<<LF, LF>>, r1.state)
            ELSE [state |-> r1.state, out |-> <<>>]
  IN [state |-> r2.state,
      writes |-> (IF r1.out # <<>> THEN <<r1.out>> ELSE <<>>)
                 \o (IF r2.out # <<>> THEN <<r2.out>> ELSE <<>>)
                 \o <<(<<DoneItem>>)>>]

\* ----------------------------------------------------- inputs and bounds
MaxWrites == 3
MaxNames == 3

AllRequests == {1, 2}

\* original tool names of a request
NameA65b == Rep("a", LIMIT) \o <<"b">>
NameA65c == Rep("a", LIMIT) \o <<"c">>
NameA64 == Rep("a", LIMIT)
NameA62s1 == Rep("a", LIMIT - 2) \o <<"_", "1">>
NameA62s1y == NameA62s1 \o <<"y">>
NameA62s1z == NameA62s1 \o <<"z">>
NameMcpS == McpPrefix \o Rep("s", LIMIT) \o <<"_", "_", "t">>
NameMcpR == McpPrefix \o Rep("r", LIMIT) \o <<"_", "_", "t">>
NameMcpT == McpPrefix \o <<"t">>
NameMcpU == McpPrefix \o <<"s", "_", "_">> \o Rep("u", LIMIT)
NameF == <<"f">>

NamePool == {NameA65b, NameA65c, NameA64, NameA62s1, NameMcpS, NameMcpR,
             NameMcpT, NameMcpU, NameF, NameConstructor}

RECURSIVE DistinctSeqs(_, _)
\* the sequences of at most n pairwise distinct elements of S
DistinctSeqs(S, n) ==
  IF n = 0 THEN {<<>>}
  ELSE LET shorter == DistinctSeqs(S, n - 1)
           fresh == {pp \in shorter \X S :
                       /\ Len(pp[1]) = n - 1
                       /\ \A i \in 1..Len(pp[1]) : pp[1][i] # pp[2]}
       IN shorter \cup {Append(pp[1], pp[2]) : pp \in fresh}

\* model names of a request (req.body.model), as texts
ModelGpt == <<"g", "p", "t", "-", "5">>
ModelGemini == <<"g", "e", "m", "i", "n", "i", "-", "2">>

\* claude-3, CLAUDE-3, gemini-2, GeMiNi-2, gemini, gpt-5, GPT-5, gpt5,
\* " gpt-5", o3 and the empty (or missing) name
ModelPool ==
  {<<"c", "l", "a", "u", "d", "e", "-", "3">>,
   <<"C", "L", "A", "U", "D", "E", "-", "3">>,
   ModelGemini,
   <<"G", "e", "M", "i", "N", "i", "-", "2">>,
   <<"g", "e", "m", "i", "n", "i">>,
   ModelGpt,
   <<"G", "P", "T", "-", "5">>,
   <<"g", "p", "t", "5">>,
   <<" ", "g", "p", "t", "-", "5">>,
   <<"o", "3">>,
   <<>>}

Backends == {"claude", "gemini", "openai"}

\* req.body.stream: true, false, or the field is missing
StreamValues == {"true", "false", "undefined"}

\* the fields of a request the router reads: req.body.model,
\* req.body.stream, req.apiKey.permissions, and the tool names of req.body
Request(model, stream, permissions, tools, toolCalls) ==
  [model |-> model, stream |-> stream, permissions |-> permissions,
   tools |-> tools, toolCalls |-> toolCalls, messages |-> <<>>,
   contents |-> <<>>, systemInstruction |-> <<>>]

\* ------------------------------------------ OpenAI -> Gemini request
\* A message of req.body.messages.  content: <<>> when the message has
\* none, <<t>> for the string t.  tool_call_id, name: "" when missing.
ChatMessage(role, content, tool_calls, tool_call_id, name) ==
  [role |-> role, content |-> content, tool_calls |-> tool_calls,
   tool_call_id |-> tool_call_id, name |-> name]

\* an entry of tool_calls: id and function.name, "" when missing;
\* hasFunction: the entry has a function field
ToolCall(id, hasFunction, name) ==
  [id |-> id, hasFunction |-> hasFunction, name |-> name]

RequestPart(kind, name, value) ==
  [kind |-> kind, name |-> name, value |-> value]

\* extractTextContent, for a string or a missing content
extractTextContent(content) == IF content = <<>> THEN "" ELSE content[1]

\* buildContentParts, for a string or a missing content
buildContentParts(content) ==
  IF content = <<>> THEN <<>> ELSE <<RequestPart("text", "", content[1])>>

RECURSIVE RecordToolCalls(_, _)
\* `for (const tc of msg.tool_calls)` of the first pass: names is the
\* list of the assignments toolCallNames[tc.id] = tc.function.name
RecordToolCalls(tool_calls, names) ==
  IF tool_calls = <<>> THEN names
  ELSE LET tc == tool_calls[1]
       IN RecordToolCalls(Tail(tool_calls),
            IF tc.id # "" /\ tc.hasFunction /\ tc.name # ""
            THEN Append(names, [id |-> tc.id, name |-> tc.name])
            ELSE names)

RECURSIVE CollectToolCallNames(_, _)
CollectToolCallNames(messages, names) ==
  IF messages = <<>> THEN names
  ELSE CollectToolCallNames(Tail(messages),
         IF messages[1].role = "assistant"
         THEN RecordToolCalls(messages[1].tool_calls, names)
         ELSE names)

RECURSIVE UntilToolMessage(_)
UntilToolMessage(messages) ==
  IF messages = <<>> \/ messages[1].role = "tool" THEN <<>>
  ELSE <<messages[1]>> \o UntilToolMessage(Tail(messages))

toolCallNames_untilTool(messages) ==
  CollectToolCallNames(UntilToolMessage(messages), <<>>)

\* the first pass of buildGeminiRequestFromOpenAI
toolCallNames(messages) == CollectToolCallNames(messages, <<>>)

\* toolCallNames[id]: the name assigned last, "" for undefined
NameOfToolCall(names, id) ==
  LET hits == {k \in DOMAIN names : names[k].id = id}
  IN IF hits = {} THEN ""
     ELSE names[CHOOSE k \in hits : \A h \in hits : h <= k].name

RECURSIVE FunctionCallParts(_)
\* tool_calls -> functionCall parts of an assistant message
FunctionCallParts(tool_calls) ==
  IF tool_calls = <<>> THEN <<>>
  ELSE (IF tool_calls[1].hasFunction
        THEN <<RequestPart("functionCall", tool_calls[1].name, "")>>
        ELSE <<>>) \o FunctionCallParts(Tail(tool_calls))

\* `toolCallNames[msg.tool_call_id] || msg.name || 'unknown'`
FunctionResponseName(names, msg) ==
  IF NameOfToolCall(names, msg.tool_call_id) # ""
  THEN NameOfToolCall(names, msg.tool_call_id)
  ELSE IF msg.name # "" THEN msg.name ELSE "unknown"

\* one round of the second pass: acc is [systemParts, contents]
ConvertMessage(msg, names, acc) ==
  CASE msg.role \in {"system", "developer"} ->
         IF extractTextContent(msg.content) # ""
         THEN [acc EXCEPT !.systemParts =
                 Append(@, RequestPart("text", "",
                                       extractTextContent(msg.content)))]
         ELSE acc
    [] msg.role = "user" ->
         IF buildContentParts(msg.content) # <<>>
         THEN [acc EXCEPT !.contents =
                 Append(@, [role |-> "user",
                            parts |-> buildContentParts(msg.content)])]
         ELSE acc
    [] msg.role = "assistant" ->
         IF buildContentParts(msg.content)
              \o FunctionCallParts(msg.tool_calls) # <<>>
         THEN [acc EXCEPT !.contents =
                 Append(@, [role |-> "model",
                            parts |-> buildContentParts(msg.content)
                                        \o FunctionCallParts(
                                             msg.tool_calls)])]
         ELSE acc
    [] msg.role = "tool" ->
         [acc EXCEPT !.contents =
            Append(@, [role |-> "user",
                       parts |-> <<RequestPart("functionResponse",
                                     FunctionResponseName(names, msg),
                                     msg.content)>>])]
    [] OTHER -> acc

RECURSIVE ConvertMessages(_, _, _)
ConvertMessages(messages, names, acc) ==
  IF messages = <<>> THEN acc
  ELSE ConvertMessages(Tail(messages), names,
                       ConvertMessage(messages[1], names, acc))

PlaceSystemParts_alwaysInstruction(acc) ==
  [contents |-> acc.contents, system_instruction |-> acc.systemParts]

\* system parts alone become the one user content; otherwise they are the
\* system_instruction
PlaceSystemParts(acc) ==
  IF acc.systemParts = <<>>
  THEN [contents |-> acc.contents, system_instruction |-> <<>>]
  ELSE IF acc.contents = <<>>
  THEN [contents |-> <<[role |-> "user", parts |-> acc.systemParts]>>,
        system_instruction |-> <<>>]
  ELSE [contents |-> acc.contents, system_instruction |-> acc.systemParts]

\* buildGeminiRequestFromOpenAI(body): contents and system_instruction
buildGeminiRequestFromOpenAI(b) ==
  PlaceSystemParts(
    ConvertMessages(b.messages, toolCallNames(b.messages),
                    [systemParts |-> <<>>, contents |-> <<>>]))

\* req.body after the request is spread into it
WithGeminiRequest(b, request) ==
  [b EXCEPT !.contents = request.contents,
            !.systemInstruction = request.system_instruction]

\* an openai request of a key with every permission
Body(tools, toolCalls) ==
  Request(ModelGpt, "undefined", Backends, tools, toolCalls)

\* a streaming gemini request of a key with every permission
GeminiBody == Request(ModelGemini, "true", Backends, <<>>, <<>>)

Frame(tok) == DataPrefix \o <<tok, LF, LF>>
FrameCRLF(tok) == DataPrefix \o <<tok, CR, LF, CR, LF>>

\* ------------------------------------------------------------ the router
VARIABLES
  phase,              \* per request: "idle", "streaming", "ended"
  backend,            \* per request: detectBackendFromModel's answer
  statusCode,         \* per request: res.statusCode
  converter,          \* per converter instance: its tool-name table
  streamState,        \* per request: streamState of the openai branch
  sseBuffer,          \* per request: sseBuffer.data of the openai branch
  geminiStreamState,  \* per request: geminiStreamState (buffer included)
  sink,               \* per request: what the original res.write received
  received,           \* per request: the chunks given to res.write and,
                      \* last, to res.end so far
  body,               \* per request: the tool names of the request body
  writeReturn,        \* per request: what the last res.write call returned
  sinkRefused         \* per request: the sink answered false in that call

vars == <<phase, backend, statusCode, converter, streamState, sseBuffer,
          geminiStreamState, sink, received, body, writeReturn, sinkRefused>>

Init ==
  /\ phase = [r \in AllRequests |-> "idle"]
  /\ backend = [r \in AllRequests |-> "none"]
  /\ statusCode = [r \in AllRequests |-> 200]
  /\ converter = [r \in AllRequests |-> NewConverter]
  /\ streamState = [r \in AllRequests |-> createStreamState]
  /\ sseBuffer = [r \in AllRequests |-> <<>>]
  /\ geminiStreamState = [r \in AllRequests |-> GeminiCreateStreamState]
  /\ sink = [r \in AllRequests |-> <<>>]
  /\ received = [r \in AllRequests |-> <<>>]
  /\ body = [r \in AllRequests |-> Body(<<>>, <<>>)]
  /\ writeReturn = [r \in AllRequests |-> TRUE]
  /\ sinkRefused = [r \in AllRequests |-> FALSE]

\* String.prototype.toLowerCase, over the letters of the model names
LowerChar(c) ==
  CASE c = "C" -> "c" [] c = "L" -> "l" [] c = "A" -> "a" [] c = "U" -> "u"
    [] c = "D" -> "d" [] c = "E" -> "e" [] c = "G" -> "g" [] c = "M" -> "m"
    [] c = "I" -> "i" [] c = "N" -> "n" [] c = "P" -> "p" [] c = "T" -> "t"
    [] OTHER -> c

ModelToLowerCase_identity(s) == s

ModelToLowerCase(s) == [i \in DOMAIN s |-> LowerChar(s[i])]

PrefixClaude == <<"c", "l", "a", "u", "d", "e", "-">>
PrefixGemini == <<"g", "e", "m", "i", "n", "i", "-">>
PrefixGpt == <<"g", "p", "t", "-">>

\* req.body.model given as the JSON number 123, not as a string
NumberModel == <<"#123">>
IsStringValue(v) == v # NumberModel

detectBackendFromModel_noDefault(modelName) ==
  IF modelName = <<>> THEN "claude"
  ELSE IF ~IsStringValue(modelName) THEN "TypeError"
  ELSE LET model == ModelToLowerCase(modelName)
       IN IF StartsWith(model, PrefixClaude) THEN "claude"
          ELSE IF StartsWith(model, PrefixGemini) THEN "gemini"
          ELSE IF StartsWith(model, PrefixGpt) THEN "openai"
          ELSE "unknown"

\* the backend returned, or "TypeError" when modelName.toLowerCase is not
\* a function and the call throws
detectBackendFromModel(modelName) ==
  IF modelName = <<>> THEN "claude"
  ELSE IF ~IsStringValue(modelName) THEN "TypeError"
  ELSE LET model == ModelToLowerCase(modelName)
       IN IF StartsWith(model, PrefixClaude) THEN "claude"
          ELSE IF StartsWith(model, PrefixGemini) THEN "gemini"
          ELSE IF StartsWith(model, PrefixGpt) THEN "openai"
          ELSE "claude"

\* `req.body.model || 'claude-3-5-sonnet-20241022'` of the two routes
DefaultModel == PrefixClaude \o <<"3", "-", "5">>
RequestedModel(b) == IF b.model = <<>> THEN DefaultModel ELSE b.model

\* apiKeyService.hasPermission(permissions, backend)
hasPermission(permissions, b) == b \in permissions

InstanceOf_shared(r) == 1

\* `new CodexToOpenAIConverter()` in routeToBackend: one instance a request
InstanceOf(r) == r

RECURSIVE Flatten(_)
Flatten(ss) == IF ss = <<>> THEN <<>> ELSE ss[1] \o Flatten(Tail(ss))

RouteOpenAI_noPermissionCheck(r, b) ==
  /\ phase[r] = "idle"
  /\ detectBackendFromModel(RequestedModel(b)) = "openai"
  /\ b.stream # "false"
  /\ phase' = [phase EXCEPT ![r] = "streaming"]
  /\ backend' = [backend EXCEPT ![r] = "openai"]
  /\ body' = [body EXCEPT ![r] = b]
  /\ converter' = [converter EXCEPT ![InstanceOf(r)] =
                     BuildToolNameTable(NewConverter, b.tools, b.toolCalls)]
  /\ streamState' = [streamState EXCEPT ![r] = createStreamState]
  /\ sseBuffer' = [sseBuffer EXCEPT ![r] = <<>>]
  /\ UNCHANGED <<statusCode, geminiStreamState, sink, received, writeReturn,
                 sinkRefused>>

\* routeToBackend, openai branch with req.body.stream !== false
RouteOpenAI(r, b) ==
  /\ phase[r] = "idle"
  /\ detectBackendFromModel(RequestedModel(b)) = "openai"
  /\ hasPermission(b.permissions, "openai")
  /\ b.stream # "false"
  /\ phase' = [phase EXCEPT ![r] = "streaming"]
  /\ backend' = [backend EXCEPT ![r] = "openai"]
  /\ body' = [body EXCEPT ![r] = b]
  /\ converter' = [converter EXCEPT ![InstanceOf(r)] =
                     BuildToolNameTable(NewConverter, b.tools, b.toolCalls)]
  /\ streamState' = [streamState EXCEPT ![r] = createStreamState]
  /\ sseBuffer' = [sseBuffer EXCEPT ![r] = <<>>]
  /\ UNCHANGED <<statusCode, geminiStreamState, sink, received, writeReturn,
                 sinkRefused>>

\* routeToBackend, gemini branch with req.body.stream
RouteGemini(r, b) ==
  /\ phase[r] = "idle"
  /\ detectBackendFromModel(RequestedModel(b)) = "gemini"
  /\ hasPermission(b.permissions, "gemini")
  /\ b.stream = "true"
  /\ phase' = [phase EXCEPT ![r] = "streaming"]
  /\ backend' = [backend EXCEPT ![r] = "gemini"]
  /\ body' = [body EXCEPT
               ![r] = WithGeminiRequest(b, buildGeminiRequestFromOpenAI(b))]
  /\ geminiStreamState' = [geminiStreamState EXCEPT
                             ![r] = GeminiCreateStreamState]
  /\ UNCHANGED <<statusCode, converter, streamState, sseBuffer, sink,
                 received, writeReturn, sinkRefused>>

\* routeToBackend, claude branch: handleChatCompletion gets the request
\* and the response as they are
RouteClaude(r, b) ==
  /\ phase[r] = "idle"
  /\ detectBackendFromModel(RequestedModel(b)) = "claude"
  /\ hasPermission(b.permissions, "claude")
  /\ phase' = [phase EXCEPT ![r] = "handled"]
  /\ backend' = [backend EXCEPT ![r] = "claude"]
  /\ body' = [body EXCEPT ![r] = b]
  /\ UNCHANGED <<statusCode, converter, streamState, sseBuffer,
                 geminiStreamState, sink, received, writeReturn, sinkRefused>>

\* routeToBackend, `return res.status(403).json(...)` of the three branches
Deny(r, b) ==
  /\ phase[r] = "idle"
  /\ detectBackendFromModel(RequestedModel(b)) \in Backends
  /\ ~hasPermission(b.permissions, detectBackendFromModel(RequestedModel(b)))
  /\ phase' = [phase EXCEPT ![r] = "denied"]
  /\ backend' = [backend EXCEPT
                   ![r] = detectBackendFromModel(RequestedModel(b))]
  /\ body' = [body EXCEPT ![r] = b]
  /\ statusCode' = [statusCode EXCEPT ![r] = 403]
  /\ sink' = [sink EXCEPT ![r] = Append(@, JsonItem("{permission_denied}"))]
  /\ UNCHANGED <<converter, streamState, sseBuffer, geminiStreamState,
                 received, writeReturn, sinkRefused>>

\* routeToBackend with no branch taken: detectBackendFromModel throws and
\* the route handler answers internal_error, or the backend is none of the
\* three and the last else answers unsupported_backend
RouteError(r, b) ==
  /\ phase[r] = "idle"
  /\ detectBackendFromModel(RequestedModel(b)) \notin Backends
  /\ phase' = [phase EXCEPT ![r] = "failed"]
  /\ body' = [body EXCEPT ![r] = b]
  /\ statusCode' = [statusCode EXCEPT ![r] = 500]
  /\ sink' = [sink EXCEPT ![r] =
       Append(@, JsonItem(
         IF detectBackendFromModel(RequestedModel(b)) = "TypeError"
         THEN "{internal_error}" ELSE "{unsupported_backend}"))]
  /\ UNCHANGED <<backend, converter, streamState, sseBuffer,
                 geminiStreamState, received, writeReturn, sinkRefused>>

\* routeToBackend, openai branch with req.body.stream === false
RouteOpenAIJson(r, b) ==
  /\ phase[r] = "idle"
  /\ detectBackendFromModel(RequestedModel(b)) = "openai"
  /\ hasPermission(b.permissions, "openai")
  /\ b.stream = "false"
  /\ phase' = [phase EXCEPT ![r] = "json"]
  /\ backend' = [backend EXCEPT ![r] = "openai"]
  /\ body' = [body EXCEPT ![r] = b]
  /\ converter' = [converter EXCEPT ![InstanceOf(r)] =
                     BuildToolNameTable(NewConverter, b.tools, b.toolCalls)]
  /\ UNCHANGED <<statusCode, streamState, sseBuffer, geminiStreamState,
                 sink, received, writeReturn, sinkRefused>>

\* routeToBackend, gemini branch without req.body.stream
RouteGeminiJson(r, b) ==
  /\ phase[r] = "idle"
  /\ detectBackendFromModel(RequestedModel(b)) = "gemini"
  /\ hasPermission(b.permissions, "gemini")
  /\ b.stream # "true"
  /\ phase' = [phase EXCEPT ![r] = "json"]
  /\ backend' = [backend EXCEPT ![r] = "gemini"]
  /\ body' = [body EXCEPT
               ![r] = WithGeminiRequest(b, buildGeminiRequestFromOpenAI(b))]
  /\ UNCHANGED <<statusCode, converter, streamState, sseBuffer,
                 geminiStreamState, sink, received, writeReturn, sinkRefused>>

\* res.json of the openai branch, patched for streaming requests too
JsonOpenAI(r, tok) ==
  /\ phase[r] \in {"streaming", "json"}
  /\ backend[r] = "openai"
  /\ received[r] = <<>>
  /\ LET j == CodexJsonHandler(converter[InstanceOf(r)], statusCode[r], tok)
     IN sink' = [sink EXCEPT ![r] = Append(@, j.out)]
  /\ phase' = [phase EXCEPT ![r] = "ended"]
  /\ received' = [received EXCEPT ![r] = Append(@, <<tok>>)]
  /\ UNCHANGED <<backend, statusCode, converter, streamState, sseBuffer,
                 geminiStreamState, body, writeReturn, sinkRefused>>

\* res.json of the gemini branch: patched for a non-streaming request, the
\* original res.json for a streaming one; an exception of convertResponse
\* leaves res.json before anything is sent
JsonGemini(r, tok) ==
  /\ phase[r] \in {"streaming", "json"}
  /\ backend[r] = "gemini"
  /\ received[r] = <<>>
  /\ LET j == IF phase[r] = "json" THEN GeminiJsonHandler(statusCode[r], tok)
              ELSE [threw |-> FALSE, out |-> JsonItem(tok)]
     IN IF j.threw
        THEN /\ phase' = [phase EXCEPT ![r] = "threw"]
             /\ UNCHANGED sink
        ELSE /\ phase' = [phase EXCEPT ![r] = "ended"]
             /\ sink' = [sink EXCEPT ![r] = Append(@, j.out)]
  /\ received' = [received EXCEPT ![r] = Append(@, <<tok>>)]
  /\ UNCHANGED <<backend, statusCode, converter, streamState, sseBuffer,
                 geminiStreamState, body, writeReturn, sinkRefused>>

\* the backend handler answers with an error status before it writes
SetStatus(r, code) ==
  /\ phase[r] \in {"streaming", "json"}
  /\ received[r] = <<>>
  /\ statusCode[r] # code
  /\ statusCode' = [statusCode EXCEPT ![r] = code]
  /\ UNCHANGED <<phase, backend, converter, streamState, sseBuffer,
                 geminiStreamState, sink, received, body, writeReturn,
                 sinkRefused>>

\* `return true` at the end of the patched openai res.write
CodexWriteReturn(answers) == TRUE

\* the patched res.write of the openai branch
WriteOpenAI(r, chunk) ==
  /\ phase[r] = "streaming"
  /\ backend[r] = "openai"
  /\ Len(received[r]) < MaxWrites
  /\ received' = [received EXCEPT ![r] = Append(@, chunk)]
  /\ IF statusCode[r] >= 400
     THEN /\ \E answer \in BOOLEAN :
               /\ writeReturn' = [writeReturn EXCEPT ![r] = answer]
               /\ sinkRefused' = [sinkRefused EXCEPT ![r] = ~answer]
          /\ sink' = [sink EXCEPT ![r] =
                        Append(@, [Item("passthrough") EXCEPT
                                     !.payload = chunk])]
          /\ UNCHANGED <<streamState, sseBuffer>>
     ELSE LET w == CodexWrite(converter[InstanceOf(r)], sseBuffer[r],
                              streamState[r], chunk)
          IN /\ sseBuffer' = [sseBuffer EXCEPT ![r] = w.data]
             /\ streamState' = [streamState EXCEPT ![r] = w.state]
             /\ sink' = [sink EXCEPT ![r] = @ \o w.out]
             /\ \E answers \in [1..Len(w.out) -> BOOLEAN] :
                  /\ writeReturn' = [writeReturn EXCEPT
                                       ![r] = CodexWriteReturn(answers)]
                  /\ sinkRefused' = [sinkRefused EXCEPT ![r] =
                                       \E i \in DOMAIN answers : ~answers[i]]
  /\ UNCHANGED <<phase, backend, statusCode, converter, geminiStreamState,
                 body>>

\* the patched res.end of the openai branch
EndOpenAI(r, chunk) ==
  /\ phase[r] = "streaming"
  /\ backend[r] = "openai"
  /\ phase' = [phase EXCEPT ![r] = "ended"]
  /\ IF statusCode[r] >= 400
     THEN /\ sink' = [sink EXCEPT ![r] =
                        IF chunk = <<>> THEN @
                        ELSE Append(@, [Item("passthrough") EXCEPT
                                          !.payload = chunk])]
          /\ UNCHANGED <<streamState, sseBuffer>>
     ELSE LET e == CodexEnd(converter[InstanceOf(r)], sseBuffer[r],
                            streamState[r], chunk)
          IN /\ sseBuffer' = [sseBuffer EXCEPT ![r] = e.data]
             /\ streamState' = [streamState EXCEPT ![r] = e.state]
             /\ sink' = [sink EXCEPT ![r] = @ \o e.out]
  /\ received' = [received EXCEPT ![r] = Append(@, chunk)]
  /\ UNCHANGED <<backend, statusCode, converter, geminiStreamState, body,
                 writeReturn, sinkRefused>>

\* the patched res.write of the gemini branch
WriteGemini(r, chunk) ==
  /\ phase[r] = "streaming"
  /\ backend[r] = "gemini"
  /\ Len(received[r]) < MaxWrites
  /\ received' = [received EXCEPT ![r] = Append(@, chunk)]
  /\ IF statusCode[r] >= 400
     THEN /\ \E answer \in BOOLEAN :
               /\ writeReturn' = [writeReturn EXCEPT ![r] = answer]
               /\ sinkRefused' = [sinkRefused EXCEPT ![r] = ~answer]
          /\ sink' = [sink EXCEPT ![r] =
                        Append(@, [Item("passthrough") EXCEPT
                                     !.payload = chunk])]
          /\ UNCHANGED geminiStreamState
     ELSE LET w == GeminiConvertStreamChunk(chunk, geminiStreamState[r])
          IN /\ geminiStreamState' = [geminiStreamState EXCEPT ![r] = w.state]
             /\ sink' = [sink EXCEPT ![r] = @ \o w.out]
             /\ IF w.out # <<>>
                THEN \E answer \in BOOLEAN :
                       /\ writeReturn' = [writeReturn EXCEPT ![r] = answer]
                       /\ sinkRefused' = [sinkRefused EXCEPT ![r] = ~answer]
                ELSE /\ writeReturn' = [writeReturn EXCEPT ![r] = TRUE]
                     /\ sinkRefused' = [sinkRefused EXCEPT ![r] = FALSE]
  /\ UNCHANGED <<phase, backend, statusCode, converter, streamState,
                 sseBuffer, body>>

\* the patched res.end of the gemini branch
EndGemini(r, chunk) ==
  /\ phase[r] = "streaming"
  /\ backend[r] = "gemini"
  /\ phase' = [phase EXCEPT ![r] = "ended"]
  /\ IF statusCode[r] >= 400
     THEN /\ sink' = [sink EXCEPT ![r] =
                        IF chunk = <<>> THEN @
                        ELSE Append(@, [Item("passthrough") EXCEPT
                                          !.payload = chunk])]
          /\ UNCHANGED geminiStreamState
     ELSE LET e == GeminiEnd(geminiStreamState[r], chunk)
          IN /\ geminiStreamState' = [geminiStreamState EXCEPT ![r] = e.state]
             /\ sink' = [sink EXCEPT ![r] = @ \o Flatten(e.writes)]
  /\ received' = [received EXCEPT ![r] = Append(@, chunk)]
  /\ UNCHANGED <<backend, statusCode, converter, streamState, sseBuffer,
                 body, writeReturn, sinkRefused>>

\* ------------------------------------------------------- specifications
\* statuses a backend error sets before the relay writes its body
ErrorStatuses == {400, 500}

\* Spec: one request; each write carries one complete frame
MainBodies == {Body(<<NameA65b, NameF>>, <<>>)}
GeminiBodies == {GeminiBody}

CodexMainTokens ==
  {"{text.delta}", "{reasoning.delta}", "{added A}", "{added B}",
   "{args.delta}", "{args.done}", "{done A}", "{done B}", "{completed}",
   "{incomplete}", "{failed}", DONE}

GeminiMainTokens ==
  {"{g text}", "{g thought}", "{g call}", "{g call c1}", "{g image}",
   "{g finish}", "{g finish 11}", "{g finish max}", "{g usage}", "{g two}",
   "{g call+finish}"}

CodexChunks == {Frame(t) : t \in CodexMainTokens}
GeminiChunks == {Frame(t) : t \in GeminiMainTokens} \cup {<<LF>>}

CodexEndChunks == {<<>>}
GeminiEndChunks == {<<>>}

Next ==
  \E r \in {1} :
    \/ \E b \in MainBodies : RouteOpenAI(r, b)
    \/ \E b \in GeminiBodies : RouteGemini(r, b)
    \/ \E code \in ErrorStatuses : SetStatus(r, code)
    \/ \E c \in CodexChunks : WriteOpenAI(r, c)
    \/ \E c \in CodexEndChunks : EndOpenAI(r, c)
    \/ \E c \in GeminiChunks : WriteGemini(r, c)
    \/ \E c \in GeminiEndChunks : EndGemini(r, c)

Spec == Init /\ [][Next]_vars

\* SpecFrames: one request; the writes are pieces of frames, cut at the
\* positions CutPoints (inside the prefix, after the payload, inside and
\* after each CRLF, between the two LF of the separator)
CutPoints == {3, 7, 8, 9, 10}

\* the two pieces of text f cut after k tokens, for every k of K
Cuts(f, K) ==
  UNION {{SubSeq(f, 1, k), SubSeq(f, k + 1, Len(f))} :
           k \in K \cap (1..(Len(f) - 1))}

Pieces(tok) ==
  {FrameCRLF(tok), FrameCRLF(DONE), Frame(tok)}
    \cup Cuts(FrameCRLF(tok), CutPoints)
    \cup Cuts(FrameCRLF(DONE), {8, 10})
    \cup Cuts(Frame(tok), {8})

CodexPieces == Pieces("{text.delta}")
GeminiPieces == Pieces("{g text}")

CodexFrameEnds == {<<>>, DataPrefix \o <<"{text.delta}">>}
GeminiFrameEnds == {<<>>, DataPrefix \o <<"{g text}">>}

NextFrames ==
  \E r \in {1} :
    \/ \E b \in MainBodies : RouteOpenAI(r, b)
    \/ \E b \in GeminiBodies : RouteGemini(r, b)
    \/ \E c \in CodexPieces : WriteOpenAI(r, c)
    \/ \E c \in CodexFrameEnds : EndOpenAI(r, c)
    \/ \E c \in GeminiPieces : WriteGemini(r, c)
    \/ \E c \in GeminiFrameEnds : EndGemini(r, c)

SpecFrames == Init /\ [][NextFrames]_vars

\* SpecNames: one openai request whose tools are any list of at most
\* MaxNames distinct names of NamePool
NameBodies ==
  {Body(t, <<>>) : t \in DistinctSeqs(NamePool, MaxNames)}
    \cup {Body(<<NameA65b>>, <<NameA65c, NameA65b>>)}

NameChunks == {Frame("{added A}")}

NextNames ==
  \E r \in {1} :
    \/ \E b \in NameBodies : RouteOpenAI(r, b)
    \/ \E c \in NameChunks : WriteOpenAI(r, c)

SpecNames == Init /\ [][NextNames]_vars

\* SpecIso: the requests of AllRequests in flight together
IsoBodies == {Body(<<NameA65b>>, <<>>), Body(<<NameA65c>>, <<>>)}
IsoCodexChunks == {Frame("{added A}"), Frame("{completed}")}
IsoGeminiChunks == {Frame("{g call}"), Frame("{g finish}")}

NextIso ==
  \E r \in AllRequests :
    \/ \E b \in IsoBodies : RouteOpenAI(r, b)
    \/ \E b \in GeminiBodies : RouteGemini(r, b)
    \/ \E c \in IsoCodexChunks : WriteOpenAI(r, c)
    \/ EndOpenAI(r, <<>>)
    \/ \E c \in IsoGeminiChunks : WriteGemini(r, c)
    \/ EndGemini(r, <<>>)

SpecIso == Init /\ [][NextIso]_vars

\* SpecRoute: one request with any model name, stream flag and
\* permissions; streamed or answered through res.json
RouteBodies ==
  {Request(m, st, perms, <<NameA65b>>, <<>>) :
     m \in ModelPool, st \in StreamValues, perms \in SUBSET Backends}

RouteCodexChunks == {Frame("{text.delta}"), Frame("{bad json")}
RouteGeminiChunks == {Frame("{g text}"), <<LF>>}
RouteEndChunks == {<<>>, Frame("{bad json")}

NextRoute ==
  \E r \in {1} :
    \/ \E b \in RouteBodies :
         \/ RouteClaude(r, b)
         \/ Deny(r, b)
         \/ RouteOpenAI(r, b)
         \/ RouteOpenAIJson(r, b)
         \/ RouteGemini(r, b)
         \/ RouteGeminiJson(r, b)
    \/ \E code \in ErrorStatuses : SetStatus(r, code)
    \/ \E tok \in CodexJsonTokens : JsonOpenAI(r, tok)
    \/ \E tok \in GeminiJsonTokens : JsonGemini(r, tok)
    \/ \E c \in RouteCodexChunks : WriteOpenAI(r, c)
    \/ \E c \in RouteEndChunks : EndOpenAI(r, c)
    \/ \E c \in RouteGeminiChunks : WriteGemini(r, c)
    \/ \E c \in RouteEndChunks : EndGemini(r, c)

SpecRoute == Init /\ [][NextRoute]_vars

\* SpecBad: one request; each write is one complete frame, some with a
\* payload that is not JSON (with and without a blank at its end) or that
\* carries an error field
BadPayloads ==
  {<<"{bad json">>, <<"{bad json", " ">>, <<"{error field}">>, <<"{g error}">>}
PayloadFrame(payload) == DataPrefix \o payload \o <<LF, LF>>
BadFrames == {PayloadFrame(p) : p \in BadPayloads}

BadCodexChunks == BadFrames \cup {Frame("{text.delta}"), Frame("{added A}")}
BadGeminiChunks == BadFrames \cup {Frame("{g text}"), Frame("{g call}")}

NextBad ==
  \E r \in {1} :
    \/ \E b \in MainBodies : RouteOpenAI(r, b)
    \/ \E b \in GeminiBodies : RouteGemini(r, b)
    \/ \E c \in BadCodexChunks : WriteOpenAI(r, c)
    \/ \E c \in BadGeminiChunks : WriteGemini(r, c)

SpecBad == Init /\ [][NextBad]_vars

\* SpecOrder: one request; the writes are frames of different kinds
\* (content, reasoning, tool call, image, not JSON, error payload), two
\* frames in one chunk, and pieces of a frame cut between the two LF of the
\* separator or inside a CRLF; res.end may carry an unterminated last frame
OrderCodexChunks ==
  {Frame(t) : t \in {"{text.delta}", "{reasoning.delta}", "{added A}",
                     "{bad json", "{error field}"}}
    \cup {Frame("{bad json") \o Frame("{text.delta}")}
    \cup Cuts(Frame("{reasoning.delta}"), {8})
    \cup Cuts(FrameCRLF("{text.delta}"), {8, 9})

OrderGeminiChunks ==
  {Frame(t) : t \in {"{g text}", "{g thought}", "{g call}", "{g image}",
                     "{bad json", "{g error}"}}
    \cup {Frame("{bad json") \o Frame("{g text}")}
    \cup Cuts(Frame("{g thought}"), {8})
    \cup Cuts(FrameCRLF("{g text}"), {8, 9})

OrderCodexEnds == {<<>>, DataPrefix \o <<"{text.delta}">>}
OrderGeminiEnds == {<<>>, DataPrefix \o <<"{g text}">>}

NextOrder ==
  \E r \in {1} :
    \/ \E b \in MainBodies : RouteOpenAI(r, b)
    \/ \E b \in GeminiBodies : RouteGemini(r, b)
    \/ \E c \in OrderCodexChunks : WriteOpenAI(r, c)
    \/ \E c \in OrderCodexEnds : EndOpenAI(r, c)
    \/ \E c \in OrderGeminiChunks : WriteGemini(r, c)
    \/ \E c \in OrderGeminiEnds : EndGemini(r, c)

SpecOrder == Init /\ [][NextOrder]_vars

\* SpecCalls: one openai request; the writes are one or two whole frames of
\* tool-call events, so that two calls can be open at once
CallTokens ==
  {"{added A}", "{added B}", "{args.delta}", "{args.done}", "{done A}",
   "{done B}"}
CallPairs ==
  {<<"{added A}", "{added B}">>, <<"{done A}", "{done B}">>,
   <<"{added A}", "{args.delta}">>, <<"{args.delta}", "{args.done}">>,
   <<"{args.done}", "{added B}">>, <<"{added B}", "{args.done}">>}
CallChunks ==
  {Frame(t) : t \in CallTokens}
    \cup {Frame(p[1]) \o Frame(p[2]) : p \in CallPairs}

NextCalls ==
  \E r \in {1} :
    \/ \E b \in MainBodies : RouteOpenAI(r, b)
    \/ \E c \in CallChunks : WriteOpenAI(r, c)
    \/ EndOpenAI(r, <<>>)

SpecCalls == Init /\ [][NextCalls]_vars

\* SpecArguments: one openai request; each write is the events of one whole
\* function call, A with the arguments xy or B with the arguments z, in one
\* of the orderings: added, deltas, done; added, done without deltas; and
\* deltas, done without added
RECURSIVE Frames(_)
Frames(toks) ==
  IF toks = <<>> THEN <<>> ELSE Frame(toks[1]) \o Frames(Tail(toks))

CallsOfA ==
  {<<"{added A}", "{args.delta}", "{args.delta y}", "{args.done}",
     "{done A}">>,
   <<"{added A}", "{args.done}", "{done A}">>,
   <<"{args.delta}", "{args.delta y}", "{args.done}", "{done A}">>}
CallsOfB ==
  {<<"{added B}", "{args.delta z}", "{args.done z}", "{done B z}">>,
   <<"{added B}", "{args.done z}", "{done B z}">>,
   <<"{args.delta z}", "{done B z}">>}
ArgumentChunks == {Frames(c) : c \in CallsOfA \cup CallsOfB}

NextArguments ==
  \E r \in {1} :
    \/ \E b \in MainBodies : RouteOpenAI(r, b)
    \/ \E c \in ArgumentChunks : WriteOpenAI(r, c)
    \/ EndOpenAI(r, <<>>)

SpecArguments == Init /\ [][NextArguments]_vars

\* SpecInert: one openai request; the writes are whole frames of events
\* without convertible content, between events that open a call, send
\* arguments and text
InertTokens ==
  {"{no type}", "{unknown}", "{reasoning.done}", "{added none}",
   "{added message}", "{done none}", "{done message}"}
InertStreamTokens ==
  InertTokens \cup {"{added A}", "{args.delta}", "{text.delta}"}

NextInert ==
  \E r \in {1} :
    \/ \E b \in MainBodies : RouteOpenAI(r, b)
    \/ \E tok \in InertStreamTokens : WriteOpenAI(r, Frame(tok))
    \/ EndOpenAI(r, <<>>)

SpecInert == Init /\ [][NextInert]_vars

\* SpecBackend: one request with any model name of ModelPool or a model
\* that is no string, any stream flag and any permissions, up to the
\* choice of the branch of routeToBackend
BackendBodies ==
  {Request(m, st, perms, <<>>, <<>>) :
     m \in ModelPool \cup {NumberModel}, st \in StreamValues,
     perms \in SUBSET Backends}

NextBackend ==
  \E r \in {1} : \E b \in BackendBodies :
    \/ RouteClaude(r, b)
    \/ Deny(r, b)
    \/ RouteError(r, b)
    \/ RouteOpenAI(r, b)
    \/ RouteOpenAIJson(r, b)
    \/ RouteGemini(r, b)
    \/ RouteGeminiJson(r, b)

SpecBackend == Init /\ [][NextBackend]_vars

\* SpecTerminal: one openai request; the writes are whole frames of content,
\* of tool calls (announced by added, or by done alone) and of the terminal
\* events with every status, with and without usage
CompletedTokens ==
  {"{completed}", "{completed no usage}", "{completed length}", "{cancelled}"}
ErrorTokens ==
  {"{incomplete}", "{incomplete filter}", "{incomplete other}", "{failed}"}
TerminalTokens ==
  CompletedTokens \cup ErrorTokens \cup {"{text.delta}", "{added A}", "{done B}"}

NextTerminal ==
  \E r \in {1} :
    \/ \E b \in MainBodies : RouteOpenAI(r, b)
    \/ \E tok \in TerminalTokens : WriteOpenAI(r, Frame(tok))
    \/ EndOpenAI(r, <<>>)

SpecTerminal == Init /\ [][NextTerminal]_vars

\* SpecHeartbeat: one request of either streaming backend; the writes are
\* blank chunks (LF, CR LF, a space, LF LF), a whole frame, and a frame
\* without its separator
HeartbeatCodexChunks ==
  {<<LF>>, <<CR, LF>>, <<" ">>, <<LF, LF>>, Frame("{text.delta}"),
   DataPrefix \o <<"{text.delta}">>}
HeartbeatGeminiChunks ==
  {<<LF>>, <<CR, LF>>, <<" ">>, <<LF, LF>>, Frame("{g text}"),
   DataPrefix \o <<"{g text}">>}

NextHeartbeat ==
  \E r \in {1} :
    \/ \E b \in MainBodies : RouteOpenAI(r, b)
    \/ \E b \in GeminiBodies : RouteGemini(r, b)
    \/ \E c \in HeartbeatCodexChunks : WriteOpenAI(r, c)
    \/ \E c \in HeartbeatGeminiChunks : WriteGemini(r, c)

SpecHeartbeat == Init /\ [][NextHeartbeat]_vars

\* SpecCandidates: one gemini stream; the frames carry text, function
\* calls and finish reasons of candidate 0 and of candidate 1, in separate
\* frames and in one frame
CandidateTokens ==
  {"{g text}", "{g call}", "{g call c1}", "{g finish}", "{g finish max}",
   "{g finish c1}", "{g call+finish}", "{g two}"}

NextCandidates ==
  \E r \in {1} :
    \/ \E b \in GeminiBodies : RouteGemini(r, b)
    \/ \E tok \in CandidateTokens : WriteGemini(r, Frame(tok))
    \/ EndGemini(r, <<>>)

SpecCandidates == Init /\ [][NextCandidates]_vars

\* SpecUsage: one gemini stream; the frames carry text, a function call, a
\* finish reason with usage, usageMetadata alone, and nothing
UsageTokens ==
  {"{g text}", "{g call}", "{g finish}", "{g usage}", "{g empty}"}

NextUsage ==
  \E r \in {1} :
    \/ \E b \in GeminiBodies : RouteGemini(r, b)
    \/ \E tok \in UsageTokens : WriteGemini(r, Frame(tok))
    \/ EndGemini(r, <<>>)

SpecUsage == Init /\ [][NextUsage]_vars

\* SpecCollide: one openai request whose tools are any list of at most
\* MaxCollide distinct names of CollidePool: names that differ beyond
\* character 64 only, in two groups, the base of the second being the
\* first suffixed form of the first
MaxCollide == 4
CollidePool == {NameA65b, NameA65c, NameA62s1y, NameA62s1z, NameF}
CollideBodies ==
  {Body(t, <<>>) : t \in DistinctSeqs(CollidePool, MaxCollide)}

NextCollide ==
  \E r \in {1} :
    \/ \E b \in CollideBodies : RouteOpenAI(r, b)
    \/ \E c \in NameChunks : WriteOpenAI(r, c)

SpecCollide == Init /\ [][NextCollide]_vars

\* SpecJson: one openai request answered by res.json; the responses are raw
\* or wrapped in a response.completed event, of every status, with and
\* without function_call items
ConvertJsonTokens ==
  {"{j completed}", "{j response}", "{j incomplete}", "{j failed}",
   "{j failed call}", "{j incomplete call}", "{j filter}", "{j cancelled}"}
JsonBodies ==
  {Request(ModelGpt, st, Backends, tools, <<>>) :
     st \in StreamValues, tools \in {<<>>, <<NameA65b>>}}

NextJson ==
  \E r \in {1} :
    \/ \E b \in JsonBodies : RouteOpenAI(r, b)
    \/ \E b \in JsonBodies : RouteOpenAIJson(r, b)
    \/ \E code \in ErrorStatuses : SetStatus(r, code)
    \/ \E tok \in ConvertJsonTokens \cup {"{j other}"} : JsonOpenAI(r, tok)

SpecJson == Init /\ [][NextJson]_vars

\* SpecMessages: one gemini request, streaming or not, whose messages are
\* any list of at most MaxMessages messages of MessagePool: system and
\* developer messages with and without text, user messages with and
\* without content, assistant messages whose tool calls share an id, have
\* no name or no function, and tool messages with a known, an unknown and
\* no tool_call_id
MaxMessages == 3
MessagePool ==
  {ChatMessage("system", <<"S">>, <<>>, "", ""),
   ChatMessage("developer", <<"D">>, <<>>, "", ""),
   ChatMessage("system", <<"">>, <<>>, "", ""),
   ChatMessage("user", <<"Hi">>, <<>>, "", ""),
   ChatMessage("user", <<>>, <<>>, "", ""),
   ChatMessage("assistant", <<>>, <<ToolCall("call_1", TRUE, "f")>>, "", ""),
   ChatMessage("assistant", <<"ok">>,
               <<ToolCall("call_1", TRUE, "g"), ToolCall("call_2", TRUE, ""),
                 ToolCall("call_3", FALSE, "")>>, "", ""),
   ChatMessage("tool", <<"1">>, <<>>, "call_1", ""),
   ChatMessage("tool", <<"2">>, <<>>, "call_2", "legacy"),
   ChatMessage("tool", <<"3">>, <<>>, "call_9", ""),
   ChatMessage("tool", <<"4">>, <<>>, "", "")}

SeqsUpTo(S, n) == UNION {[1..k -> S] : k \in 0..n}

MessageBodies ==
  {[Request(ModelGemini, st, Backends, <<>>, <<>>) EXCEPT !.messages = ms] :
     st \in {"true", "false"}, ms \in SeqsUpTo(MessagePool, MaxMessages)}

NextMessages ==
  \E r \in {1} :
    \/ \E b \in MessageBodies : RouteGemini(r, b)
    \/ \E b \in MessageBodies : RouteGeminiJson(r, b)

SpecMessages == Init /\ [][NextMessages]_vars

\* SpecSignature: one gemini request, streaming or not; the documents have
\* parts with a thoughtSignature alone, with an empty text, and next to a
\* text part
SignatureStreamTokens ==
  {"{g signature}", "{g signature empty}", "{g signature+text}", "{g text}",
   "{g finish}"}
SignatureJsonTokens ==
  {"{g signature}", "{g signature empty}", "{g signature+text}", "{g text}",
   "{g text+finish}"}
SignatureBodies ==
  {Request(ModelGemini, st, Backends, <<>>, <<>>) : st \in StreamValues}

NextSignature ==
  \E r \in {1} :
    \/ \E b \in SignatureBodies : RouteGemini(r, b)
    \/ \E b \in SignatureBodies : RouteGeminiJson(r, b)
    \/ \E tok \in SignatureJsonTokens : JsonGemini(r, tok)
    \/ \E tok \in SignatureStreamTokens : WriteGemini(r, Frame(tok))
    \/ EndGemini(r, <<>>)

SpecSignature == Init /\ [][NextSignature]_vars

\* ----------------------------------------------------------- properties
FinishReasons == {"stop", "length", "tool_calls", "content_filter"}

Converting(r) == phase[r] # "idle" /\ statusCode[r] < 400

\* the positions of sink[r] that satisfy P
Positions(r, P(_)) == {i \in 1..Len(sink[r]) : P(sink[r][i])}

HasRole(it) == it.role
IsTerminal(it) == it.kind = "chunk" /\ it.finish_reason # "null"
IsAnnouncement(it) == it.kind = "chunk" /\ it.tool.announce

RoleSent(r) ==
  IF backend[r] = "openai" THEN streamState[r].roleSent
  ELSE geminiStreamState[r].roleSent

\* C4: in either converter at most one emitted chunk carries the role
\* field, it is a chunk with a null finish_reason, and roleSent is true from
\* that chunk on (so it never turns false and no later chunk has a role).
C4_RoleAtMostOnce ==
  \A r \in AllRequests :
    /\ Cardinality(Positions(r, HasRole)) <= 1
    /\ Positions(r, HasRole) # {} <=> (backend[r] # "none" /\ RoleSent(r))
    /\ \A i \in Positions(r, HasRole) : ~IsTerminal(sink[r][i])

\* C4 witness: a stream whose first chunk has the role, followed by a
\* tool-call chunk and a terminal chunk without it
C4_Witness ==
  \E r \in AllRequests :
    /\ Len(sink[r]) >= 3
    /\ sink[r][1].role
    /\ sink[r][2].delta = "tool_calls"
    /\ IsTerminal(sink[r][3])

\* the tool-call indexes of the announcement chunks of sink[r], in order
AnnouncedIndexes(r) ==
  LET pos == Positions(r, IsAnnouncement)
      nth(k) == CHOOSE i \in pos : Cardinality({j \in pos : j < i}) = k - 1
  IN [k \in 1..Cardinality(pos) |-> sink[r][nth(k)].tool.index]

\* C5: the announcement chunks of a stream carry the indexes 0, 1, 2, ...
\* in their order of emission, whatever output_index or candidate index
\* the backend sent.
C5_CallIndexInEncounterOrder ==
  \A r \in AllRequests :
    \A k \in DOMAIN AnnouncedIndexes(r) : AnnouncedIndexes(r)[k] = k - 1

\* C5 witness: call_A (output_index 7) and then call_B (output_index 3)
\* announced, and a third announcement after them
C5_Witness ==
  \E r \in AllRequests :
    /\ backend[r] = "openai"
    /\ Len(AnnouncedIndexes(r)) = 3
    /\ \E i, j \in Positions(r, IsAnnouncement) :
         /\ i < j
         /\ sink[r][i].tool.id = <<"call_A">>
         /\ sink[r][j].tool.id = <<"call_B">>

GeminiReasons ==
  {"STOP", "Stop", "MAX_TOKENS", "MALFORMED_FUNCTION_CALL",
   "TOO_MANY_TOOL_CALLS", "UNEXPECTED_TOOL_CALL", "SAFETY", "RECITATION",
   "BLOCKLIST", "PROHIBITED_CONTENT", "SPII", "IMAGE_SAFETY", "LANGUAGE",
   "OTHER", "FINISH_REASON_UNSPECIFIED", "NEW_REASON", "stop"}
GeminiUnrecognized == {"OTHER", "FINISH_REASON_UNSPECIFIED", "NEW_REASON"}
CodexStatuses == {"", "completed", "incomplete", "failed", "cancelled",
                  "in_progress", "queued"}
CodexRecognized == {"completed", "incomplete"}
IncompleteReasons == {"", "max_output_tokens", "content_filter", "other"}

\* both mappings, streaming and non-streaming, over every native value
MappingsTotal ==
  /\ \A g \in GeminiReasons :
       /\ _mapFinishReason(g) \in FinishReasons
       /\ g \in GeminiUnrecognized => _mapFinishReason(g) = "stop"
       /\ \A n \in 0..1 :
            GeminiMessageFinishReason(Candidate(0, <<>>, g), n)
              \in FinishReasons
  /\ \A n \in 0..1 :
       GeminiMessageFinishReason(Candidate(0, <<>>, ""), n) \in FinishReasons
  /\ \A st \in CodexStatuses : \A why \in IncompleteReasons :
       /\ _mapResponseStatus(Response(st, why, FALSE)) \in FinishReasons
       /\ st \notin CodexRecognized =>
            _mapResponseStatus(Response(st, why, FALSE)) = "stop"
       /\ \A n \in 0..1 :
            CodexMessageFinishReason(Response(st, why, FALSE), n)
              \in FinishReasons

\* C6: every non-null finish_reason emitted is one of stop, length,
\* tool_calls, content_filter; both mappings give one of them for every
\* native reason or status, and stop for an unrecognized or missing one.
C6_FinishReasonTotal ==
  /\ \A r \in AllRequests : \A i \in Positions(r, IsTerminal) :
       sink[r][i].finish_reason \in FinishReasons
  /\ MappingsTotal

\* C6 witness: a terminal chunk whose reason was mapped to length
C6_Witness ==
  \E r \in AllRequests : \E i \in Positions(r, IsTerminal) :
    sink[r][i].finish_reason = "length"

\* the terminal chunks of choice idx
TerminalsOf(r, idx) ==
  {i \in Positions(r, IsTerminal) : sink[r][i].index = idx}

\* C7: every choice of a converted stream that is terminated has exactly
\* one chunk with a non-null finish_reason.
C7_OneTerminalPerChoice ==
  \A r \in AllRequests : \A idx \in 0..1 :
    Converting(r) /\ TerminalsOf(r, idx) # {} =>
      Cardinality(TerminalsOf(r, idx)) = 1

\* C10: in a non-error stream a res.write call during which the sink
\* refused a converted output returns false; it returns true only when the
\* sink accepted everything written.
C10_BackpressurePropagates ==
  \A r \in AllRequests :
    Converting(r) /\ received[r] # <<>> =>
      (writeReturn[r] <=> ~sinkRefused[r])

NotHeartbeat(it) == it.kind # "heartbeat"

\* what the interceptor of request r writes when everything received so
\* far arrives as one chunk on a fresh stream state
WholeOutput(r) ==
  IF backend[r] = "openai"
  THEN CodexWrite(converter[InstanceOf(r)], <<>>, createStreamState,
                  Flatten(received[r])).out
  ELSE GeminiConvertStreamChunk(Flatten(received[r]),
                                GeminiCreateStreamState).out

\* C1: the frames written after feeding the chunks one by one are the
\* frames written when the concatenated stream is fed as a single chunk,
\* for every cut, a cut between CR and LF included.
C1_ChunkBoundaryInvariance ==
  \A r \in AllRequests :
    phase[r] = "streaming" /\ statusCode[r] < 400 =>
      SelectSeq(sink[r], NotHeartbeat) = SelectSeq(WholeOutput(r), NotHeartbeat)

\* the client reads the item as the frame data: [DONE]
ClientSeesDone(it) ==
  \/ it.kind = "done"
  \/ it.kind = "raw" /\ it.payload \in {<<DONE>>, <<DONE, CR>>}

\* C8: in a non-error exchange no [DONE] reaches the client before res.end,
\* and after res.end exactly one did and it is the last frame written.
C8_DoneOnceAndLast ==
  \A r \in AllRequests :
    /\ phase[r] = "streaming" /\ statusCode[r] < 400 =>
         Positions(r, ClientSeesDone) = {}
    /\ phase[r] = "ended" /\ statusCode[r] < 400 =>
         Positions(r, ClientSeesDone) = {Len(sink[r])}

\* the table a request builds for itself
OwnTable(r) == BuildToolNameTable(NewConverter, body[r].tools,
                                  body[r].toolCalls)

\* C2: for a list of distinct names the map of _buildShortNameMap has an
\* entry for each, no two names share a short name, and no short name is
\* longer than 64.
C2_ShortNamesInjective ==
  \A r \in AllRequests :
    backend[r] = "openai" /\ body[r].tools \o body[r].toolCalls # <<>> =>
      LET m == converter[InstanceOf(r)]._toolNameMap
      IN /\ DOMAIN m = {body[r].tools[i] : i \in DOMAIN body[r].tools}
                         \cup {body[r].toolCalls[i] :
                                 i \in DOMAIN body[r].toolCalls}
         /\ \A n1, n2 \in DOMAIN m : n1 # n2 => m[n1] # m[n2]
         /\ \A n \in DOMAIN m : Len(m[n]) <= LIMIT

\* C2 witness: three names with the same base candidate in one table
C2_Witness ==
  \E r \in AllRequests :
    /\ backend[r] = "openai"
    /\ {NameA65b, NameA65c, NameA64}
         \subseteq DOMAIN converter[InstanceOf(r)]._toolNameMap

\* C3: once the table is built, restoring the shortened form of any name
\* of the table gives the name back.
C3_RoundTrip ==
  \A r \in AllRequests :
    backend[r] = "openai" =>
      LET conv == converter[InstanceOf(r)]
      IN \A n \in DOMAIN conv._toolNameMap :
           _restoreToolName(conv, _shortenToolName(conv, n)) = n

RECURSIVE CodexReplay(_, _, _)
CodexReplay(conv, chunks, acc) ==
  IF chunks = <<>> THEN acc
  ELSE LET w == CodexWrite(conv, acc.data, acc.state, chunks[1])
       IN CodexReplay(conv, Tail(chunks),
            [data |-> w.data, state |-> w.state, out |-> acc.out \o w.out])

RECURSIVE GeminiReplay(_, _)
GeminiReplay(chunks, acc) ==
  IF chunks = <<>> THEN acc
  ELSE LET w == GeminiConvertStreamChunk(chunks[1], acc.state)
       IN GeminiReplay(Tail(chunks),
            [state |-> w.state, out |-> acc.out \o w.out])

\* the chunks request r gave to res.write
Written(r) ==
  IF phase[r] = "ended" THEN SubSeq(received[r], 1, Len(received[r]) - 1)
  ELSE received[r]

\* what request r alone, with a converter and a state of its own, writes
\* for the input it has had (statusCode < 400)
AloneSink(r) ==
  IF backend[r] = "openai"
  THEN LET w == CodexReplay(OwnTable(r), Written(r),
                  [data |-> <<>>, state |-> createStreamState, out |-> <<>>])
       IN IF phase[r] = "ended"
          THEN w.out \o CodexEnd(OwnTable(r), w.data, w.state,
                                 received[r][Len(received[r])]).out
          ELSE w.out
  ELSE LET w == GeminiReplay(Written(r),
                  [state |-> GeminiCreateStreamState, out |-> <<>>])
       IN IF phase[r] = "ended"
          THEN w.out \o Flatten(GeminiEnd(w.state,
                                  received[r][Len(received[r])]).writes)
          ELSE w.out

\* C9: with the requests interleaved in any order, what each request has
\* written is what it writes when run alone on its own input, and the
\* table its events are restored with is the one built from its own body.
C9_RequestIsolation ==
  \A r \in AllRequests :
    Converting(r) =>
      /\ sink[r] = AloneSink(r)
      /\ backend[r] = "openai" => converter[InstanceOf(r)] = OwnTable(r)

\* C9 witness: two openai requests with different tools, both past their
\* first write, each announcing the call under its own original name
C9_Witness ==
  /\ \A r \in {1, 2} : phase[r] = "streaming" /\ backend[r] = "openai"
  /\ \E i \in Positions(1, IsAnnouncement) : sink[1][i].tool.name = NameA65b
  /\ \E i \in Positions(2, IsAnnouncement) : sink[2][i].tool.name = NameA65c

\* what the original sink gets for the arguments of a call that is
\* forwarded as it is: the data of res.json, the chunk of res.write or
\* res.end (no chunk: nothing is written)
JsonTokens == CodexJsonTokens \cup GeminiJsonTokens
Forwarded(arg) ==
  IF Len(arg) = 1 /\ arg[1] \in JsonTokens THEN JsonItem(arg[1])
  ELSE [Item("passthrough") EXCEPT !.payload = arg]

RECURSIVE ForwardedAll(_)
ForwardedAll(args) ==
  IF args = <<>> THEN <<>>
  ELSE IF args[1] = <<>> THEN ForwardedAll(Tail(args))
  ELSE <<Forwarded(args[1])>> \o ForwardedAll(Tail(args))

\* C11: under an error status (>= 400) every res.write, res.end and
\* res.json call reaches the original sink with its arguments unchanged and
\* in order; nothing is converted, nothing is kept in a buffer or in the
\* stream state, no [DONE] is added, and res.write returns the sink's answer.
C11_ErrorPassthrough ==
  \A r \in AllRequests :
    statusCode[r] >= 400 /\ phase[r] \in {"streaming", "json", "ended"} =>
      /\ sink[r] = ForwardedAll(received[r])
      /\ sseBuffer[r] = <<>>
      /\ streamState[r] = createStreamState
      /\ geminiStreamState[r] = GeminiCreateStreamState
      /\ phase[r] = "streaming" /\ received[r] # <<>> =>
           (writeReturn[r] <=> ~sinkRefused[r])

\* C11 witness: under an error status a frame that converts under 200 was
\* written and the response was ended with a chunk, or res.json was given a
\* document that converts under 200
C11_Witness ==
  \E r \in AllRequests :
    /\ statusCode[r] >= 400
    /\ phase[r] = "ended"
    /\ \/ /\ backend[r] = "openai"
          /\ Len(received[r]) >= 2
          /\ received[r][1] = Frame("{text.delta}")
          /\ received[r][Len(received[r])] # <<>>
       \/ /\ backend[r] = "gemini"
          /\ received[r] = << <<"{g text+finish}">> >>

\* the payload of a one-line frame: the text after `data: `
PayloadOf(frame) == SubSeq(frame, Len(DataPrefix) + 1, Len(frame) - 2)
IsBadFrame(chunk) == chunk \in BadFrames
IsGoodFrame(chunk) == chunk \notin BadFrames
IsRaw(it) == it.kind = "raw"
IsNotRaw(it) == it.kind # "raw"

\* the stream state and the output of request r for the chunks given
ReplayOf(r, chunks) ==
  IF backend[r] = "openai"
  THEN LET w == CodexReplay(converter[InstanceOf(r)], chunks,
                  [data |-> <<>>, state |-> createStreamState, out |-> <<>>])
       IN [state |-> w.state, out |-> w.out]
  ELSE LET w == GeminiReplay(chunks,
                  [state |-> GeminiCreateStreamState, out |-> <<>>])
       IN [state |-> w.state, out |-> w.out]

\* C12: in a stream, each data line whose payload is not JSON or carries an
\* error field is written to the client as `data: <payload>` with the
\* payload as received, in order; the other output and the stream state are
\* what they are without those lines.
C12_BadPayloadForwarded ==
  \A r \in AllRequests :
    Converting(r) /\ phase[r] = "streaming" =>
      LET bad == SelectSeq(received[r], IsBadFrame)
          good == ReplayOf(r, SelectSeq(received[r], IsGoodFrame))
      IN /\ SelectSeq(sink[r], IsRaw)
              = [i \in 1..Len(bad) |-> RawItem(PayloadOf(bad[i]))]
         /\ SelectSeq(sink[r], IsNotRaw) = good.out
         /\ IF backend[r] = "openai" THEN streamState[r] = good.state
            ELSE geminiStreamState[r] = good.state

\* request r got, through its patched res.json under a status below 400,
\* the document tok, and convertResponse throws on it
ConversionThrows(r, tok) ==
  IF backend[r] = "openai"
  THEN /\ tok \in CodexJsonTokens
       /\ ~IsNull(CodexJsonDoc(tok))
       /\ (CodexJsonDoc(tok).type = "response.completed"
             \/ CodexJsonDoc(tok).object = "response")
       /\ CodexConvertResponse(converter[InstanceOf(r)],
                               CodexJsonDoc(tok)).threw
  ELSE /\ backend[r] = "gemini"
       /\ body[r].stream # "true"
       /\ tok \in GeminiJsonTokens
       /\ GeminiJsonDoc(tok).candidates # <<>>
       /\ GeminiConvertResponse(GeminiJsonDoc(tok)).threw

\* C13: when convertResponse throws on a successful JSON answer, for the
\* openai and for the gemini backend, res.json catches the exception and
\* sends the document it was given, unconverted.
C13_ConversionFailureFallsBack ==
  \A r \in AllRequests : \A tok \in JsonTokens :
    /\ statusCode[r] < 400
    /\ received[r] = << <<tok>> >>
    /\ ConversionThrows(r, tok)
    => phase[r] = "ended" /\ sink[r] = <<JsonItem(tok)>>

\* what a line of the backend stream carries: "" when it is no data line
\* or carries no content, "raw" when its payload is not JSON or carries an
\* error field
LineLabel(line) ==
  IF ~StartsWith(line, DataPrefix) THEN ""
  ELSE LET payload == Trim(SliceFrom(line, Len(DataPrefix)))
       IN IF payload = <<>> \/ payload = <<DONE>> THEN ""
          ELSE IF Len(payload) # 1 THEN "raw"
          ELSE CASE payload[1] \in {"{text.delta}", "{g text}"} -> "text"
                 [] payload[1] \in {"{reasoning.delta}", "{g thought}"} ->
                      "reasoning"
                 [] payload[1] \in {"{added A}", "{g call}"} -> "tool"
                 [] payload[1] = "{g image}" -> "image"
                 [] OTHER -> "raw"

\* what an output carries, "" for an output without content
ItemLabel(it) ==
  CASE it.kind = "raw" -> "raw"
    [] it.kind = "chunk" /\ it.delta = "content" -> "text"
    [] it.kind = "chunk" /\ it.delta = "reasoning_content" -> "reasoning"
    [] it.kind = "chunk" /\ it.delta = "tool_calls" -> "tool"
    [] it.kind = "chunk" /\ it.delta = "images" -> "image"
    [] OTHER -> ""

IsLabel(l) == l # ""
\* the labels other than "" of the elements of s, in order
LabelsOf(s, Label(_)) == SelectSeq([i \in DOMAIN s |-> Label(s[i])], IsLabel)

\* the lines of the backend stream of request r, line ends normalised
BackendLines(r) == SplitLines(ReplaceCRLF(Flatten(received[r])))

IsPrefix(s, t) == Len(s) <= Len(t) /\ s = SubSeq(t, 1, Len(s))

\* C14: in a stream without error status the outputs with content are, in
\* order, those of the backend payloads with content received so far; at
\* the end none is missing and all precede the [DONE] written by res.end.
C14_OrderPreservedNoLoss ==
  \A r \in AllRequests :
    Converting(r) /\ phase[r] \in {"streaming", "ended"} =>
      LET events == LabelsOf(BackendLines(r), LineLabel)
          outputs == LabelsOf(sink[r], ItemLabel)
      IN /\ IsPrefix(outputs, events)
         /\ phase[r] = "ended" =>
              /\ outputs = events
              /\ sink[r][Len(sink[r])] = DoneItem

\* C14 witness: an ended stream that carried a payload that is not JSON,
\* then other content, with an unterminated last frame given to res.end
C14_Witness ==
  \E r \in AllRequests :
    /\ Converting(r) /\ phase[r] = "ended"
    /\ Len(received[r]) >= 3
    /\ received[r][Len(received[r])] # <<>>
    /\ LET events == LabelsOf(BackendLines(r), LineLabel)
       IN Len(events) >= 3 /\ events[1] = "raw" /\ events[2] # "raw"

\* name starts with prefix, letter case aside
StartsWithAnyCase(name, prefix) ==
  /\ Len(name) >= Len(prefix)
  /\ \A i \in DOMAIN prefix : LowerChar(name[i]) = prefix[i]

\* C15: the backend of a routed request depends on its model name only:
\* gemini for a name starting with gemini-, openai for gpt-, claude for
\* claude- and for every other name, the empty or missing one included,
\* whatever the letter case, the stream flag and the key's permissions.
C15_BackendFromModelName ==
  \A r \in AllRequests :
    phase[r] # "idle" =>
      backend[r] =
        IF StartsWithAnyCase(body[r].model, PrefixClaude) THEN "claude"
        ELSE IF StartsWithAnyCase(body[r].model, PrefixGemini) THEN "gemini"
        ELSE IF StartsWithAnyCase(body[r].model, PrefixGpt) THEN "openai"
        ELSE "claude"

\* C15 witness: a request named GPT-5 was routed to openai
C15_Witness ==
  \E r \in AllRequests :
    /\ phase[r] # "idle"
    /\ body[r].model = <<"G", "P", "T", "-", "5">>
    /\ backend[r] = "openai"

\* C16: a request whose key lacks the permission of the selected backend
\* is answered 403 permission_denied and nothing else happens to it: no
\* handler gets it, its body is not rewritten (no tool-name table is built)
\* and no res.write, res.end or res.json of it is intercepted; a request
\* that reached a handler had the permission.
C16_PermissionBeforeDispatch ==
  \A r \in AllRequests :
    phase[r] # "idle" =>
      IF hasPermission(body[r].permissions, backend[r])
      THEN phase[r] # "denied"
      ELSE /\ phase[r] = "denied"
           /\ statusCode[r] = 403
           /\ sink[r] = <<JsonItem("{permission_denied}")>>
           /\ received[r] = <<>>
           /\ converter[InstanceOf(r)] = NewConverter
           /\ streamState[r] = createStreamState
           /\ geminiStreamState[r] = GeminiCreateStreamState

\* C16 witness: a gpt request of a key with the claude and gemini
\* permissions only was denied
C16_Witness ==
  \E r \in AllRequests :
    /\ phase[r] = "denied"
    /\ backend[r] = "openai"
    /\ body[r].permissions = {"claude", "gemini"}

IsChunk(it) == it.kind = "chunk"

\* frames whose only candidate has finishReason STOP and nothing else, with
\* a usageMetadata of promptTokenCount, candidatesTokenCount, totalTokenCount
StopWithUsage == {"{g finish}", "{g finish 11}"}

\* C17: a Gemini stream of one frame with a single text part, then one frame
\* whose candidate has only finishReason STOP, with usageMetadata, gives two
\* chunks: delta {role: assistant, content: the text} with finish_reason
\* null, then finish_reason stop with usage prompt_tokens, completion_tokens
\* and total_tokens equal to the three counts of usageMetadata.
C17_TextThenStopWithUsage ==
  \A r \in AllRequests : \A fin \in StopWithUsage :
    /\ Converting(r) /\ backend[r] = "gemini"
    /\ Written(r) = <<Frame("{g text}"), Frame(fin)>>
    => LET chunks == SelectSeq(sink[r], IsChunk)
           meta == GeminiDoc(fin).counts
       IN /\ Len(chunks) = 2
          /\ chunks[1].role /\ chunks[1].delta = "content"
          /\ chunks[1].text = "Hi"
          /\ chunks[1].finish_reason = "null" /\ ~chunks[1].usage
          /\ ~chunks[2].role /\ chunks[2].delta = "none"
          /\ chunks[2].finish_reason = "stop" /\ chunks[2].usage
          /\ chunks[2].usage_tokens =
               [NoUsage EXCEPT
                  !.prompt_tokens = meta.promptTokenCount,
                  !.completion_tokens = meta.candidatesTokenCount,
                  !.total_tokens = meta.totalTokenCount]

\* C17 witness: the stream of the scenario, with counts 5, 2 and 7, ended
C17_Witness ==
  \E r \in AllRequests :
    /\ Converting(r) /\ backend[r] = "gemini" /\ phase[r] = "ended"
    /\ Written(r) = <<Frame("{g text}"), Frame("{g finish}")>>
    /\ GeminiDoc("{g finish}").counts = UsageCounts(5, 2, 0, 7)

\* documents whose only part carries thoughtSignature and no text (absent
\* or empty, as `!part.text` reads it), functionCall or inline data
SignatureOnlyTokens == {"{g signature}", "{g signature empty}"}

IsSignatureFrame(chunk) == \E tok \in SignatureOnlyTokens : chunk = Frame(tok)
IsNotSignatureFrame(chunk) == ~IsSignatureFrame(chunk)

\* the stream without its thoughtSignature-only parts
WithoutSignatures(chunks) ==
  LET kept == SelectSeq(chunks, IsNotSignatureFrame)
  IN [i \in DOMAIN kept |->
        IF kept[i] = Frame("{g signature+text}") THEN Frame("{g text}")
        ELSE kept[i]]

IsCompletion(it) == it.kind = "completion"

\* C18: a part with thoughtSignature and no text, functionCall or inline
\* data contributes nothing.  Non-streaming: a candidate with only such a
\* part has content null, no reasoning_content, no tool_calls, no images,
\* and next to a text part the message is that of the text part alone.
\* Streaming: the client gets the chunks of the stream without such parts,
\* roleSent is what that stream leaves, and a stream of such parts alone
\* emits no chunk and leaves roleSent false.
C18_SignatureOnlyPartIgnored ==
  \A r \in AllRequests :
    Converting(r) /\ backend[r] = "gemini" =>
      /\ \A tok \in SignatureOnlyTokens :
           /\ received[r] = <<<<tok>>>>
           /\ Len(sink[r]) = 1 /\ IsCompletion(sink[r][1])
           => /\ Len(sink[r][1].choices) = 1
              /\ sink[r][1].choices[1].contentNull
              /\ sink[r][1].choices[1].content = <<>>
              /\ sink[r][1].choices[1].reasoning_content = <<>>
              /\ sink[r][1].choices[1].tool_calls = <<>>
              /\ sink[r][1].choices[1].images = <<>>
      /\ /\ received[r] = <<<<"{g signature+text}">>>>
         /\ Len(sink[r]) = 1 /\ IsCompletion(sink[r][1])
         => sink[r][1].choices =
              GeminiConvertResponse(GeminiDoc("{g text}")).out.choices
      /\ /\ phase[r] \in {"streaming", "ended"}
         /\ SelectSeq(sink[r], IsCompletion) = <<>>
         => LET alone == GeminiReplay(WithoutSignatures(Written(r)),
                           [state |-> GeminiCreateStreamState, out |-> <<>>])
            IN /\ SelectSeq(sink[r], IsChunk) = SelectSeq(alone.out, IsChunk)
               /\ geminiStreamState[r].roleSent = alone.state.roleSent
               /\ SelectSeq(Written(r), IsNotSignatureFrame) = <<>>
                  => /\ SelectSeq(sink[r], IsChunk) = <<>>
                     /\ ~geminiStreamState[r].roleSent

\* C18 witness: both kinds of thoughtSignature-only frame, then a text frame
\* whose chunk is the first of the stream and carries the role
C18_Witness ==
  \E r \in AllRequests :
    /\ Converting(r) /\ backend[r] = "gemini" /\ phase[r] = "ended"
    /\ Written(r) = <<Frame("{g signature}"), Frame("{g signature empty}"),
                      Frame("{g text}")>>
    /\ sink[r] # <<>> /\ sink[r][1].role

IsCallToken(t) == t \in CallTokens

\* the tool-call events request r has received, in order
CallEvents(r) == SelectSeq(Flatten(Written(r)), IsCallToken)

Calls == {"A", "B"}
AddedOf(call) == IF call = "A" THEN "{added A}" ELSE "{added B}"
DoneOf(call) == IF call = "A" THEN "{done A}" ELSE "{done B}"
CallIdOf(call) == IF call = "A" THEN <<"call_A">> ELSE <<"call_B">>

IndexesOf(ev, tok) == {k \in DOMAIN ev : ev[k] = tok}

\* every call is added at most once and done at most once, and a call that
\* is done was added before
AddedThenDone(ev) ==
  \A call \in Calls :
    /\ Cardinality(IndexesOf(ev, AddedOf(call))) <= 1
    /\ Cardinality(IndexesOf(ev, DoneOf(call))) <= 1
    /\ \A k \in IndexesOf(ev, DoneOf(call)) :
         \E j \in IndexesOf(ev, AddedOf(call)) : j < k

\* C19: when every output_item.done follows the output_item.added of its
\* own call, calls open at once included, each added call is announced
\* exactly once and functionCallIndex is the number of calls minus one.
C19_DoneAfterAddedIsSilent ==
  \A r \in AllRequests :
    Converting(r) /\ backend[r] = "openai" /\ AddedThenDone(CallEvents(r)) =>
      LET ev == CallEvents(r)
          added == {call \in Calls : IndexesOf(ev, AddedOf(call)) # {}}
      IN /\ \A call \in Calls :
              Cardinality({i \in Positions(r, IsAnnouncement) :
                             sink[r][i].tool.id = CallIdOf(call)})
                = IF call \in added THEN 1 ELSE 0
         /\ streamState[r].functionCallIndex = Cardinality(added) - 1

\* the events up to position k, one frame each
FramesUpTo(ev, k) == [i \in 1..k |-> Frame(ev[i])]

\* the chunks written for the first k tool-call events of request r
OutUpTo(r, ev, k) ==
  SelectSeq(ReplayOf(r, FramesUpTo(ev, k)).out, IsChunk)

\* what the k-th event made the converter write
EmittedAt(r, ev, k) ==
  SubSeq(OutUpTo(r, ev, k), Len(OutUpTo(r, ev, k - 1)) + 1,
         Len(OutUpTo(r, ev, k)))

\* C20: function_call_arguments.done writes one chunk with the full
\* arguments exactly when no function_call_arguments.delta came since the
\* output_item.added of the current call, and nothing otherwise; a delta of
\* an earlier call does not count.  After added, delta("x"), done the
\* client has the announcement with empty arguments and the fragment "x".
C20_ArgumentsDoneOnlyWithoutDelta ==
  \A r \in AllRequests :
    Converting(r) /\ backend[r] = "openai" =>
      LET ev == CallEvents(r)
          addedAt == IndexesOf(ev, "{added A}") \cup IndexesOf(ev, "{added B}")
      IN /\ SelectSeq(sink[r], IsChunk) = OutUpTo(r, ev, Len(ev))
         /\ \A k \in IndexesOf(ev, "{args.done}") :
              \A a \in addedAt :
                a < k /\ (\A j \in addedAt : j < k => j <= a) =>
                  IF \E j \in (a + 1)..(k - 1) : ev[j] = "{args.delta}"
                  THEN EmittedAt(r, ev, k) = <<>>
                  ELSE /\ Len(EmittedAt(r, ev, k)) = 1
                       /\ EmittedAt(r, ev, k)[1].delta = "tool_calls"
                       /\ ~EmittedAt(r, ev, k)[1].tool.announce
                       /\ EmittedAt(r, ev, k)[1].tool.arguments =
                            CodexDoc("{args.done}").arguments
         /\ ev = <<"{added A}", "{args.delta}", "{args.done}">> =>
              LET out == SelectSeq(sink[r], IsChunk)
              IN /\ Len(out) = 2
                 /\ out[1].tool.announce /\ out[1].tool.arguments = ""
                 /\ ~out[2].tool.announce
                 /\ out[2].tool.arguments = CodexDoc("{args.delta}").delta

\* C20 witness: call A got a delta and its done wrote nothing, then call B
\* got no delta and its done wrote the full arguments
C20_Witness ==
  \E r \in AllRequests :
    /\ Converting(r) /\ backend[r] = "openai"
    /\ CallEvents(r) = <<"{added A}", "{args.delta}", "{args.done}",
                         "{added B}", "{args.done}">>
    /\ Len(sink[r]) = 4
    /\ sink[r][4].tool.arguments = CodexDoc("{args.done}").arguments

IsTerminalToken(t) == t \in TerminalTokens
IsNotDoneItem(it) == it.kind # "done"

\* the events of SpecTerminal request r has received, in order
TerminalEvents(r) == SelectSeq(Flatten(Written(r)), IsTerminalToken)

\* everything written for the first k events of request r
ItemsUpTo(r, ev, k) == ReplayOf(r, FramesUpTo(ev, k)).out

\* what the k-th event made the converter write
ItemsAt(r, ev, k) ==
  SubSeq(ItemsUpTo(r, ev, k), Len(ItemsUpTo(r, ev, k - 1)) + 1,
         Len(ItemsUpTo(r, ev, k)))

\* a tool call was announced before the k-th event
SlotUsedBefore(r, ev, k) ==
  SelectSeq(ItemsUpTo(r, ev, k - 1), IsAnnouncement) # <<>>

\* the reason of a response status: incomplete with max_output_tokens is
\* length, with content_filter content_filter, with another reason length;
\* completed, cancelled and failed are stop
StatusReason(tok) ==
  CASE tok \in {"{completed length}", "{incomplete}", "{incomplete other}"} ->
         "length"
    [] tok = "{incomplete filter}" -> "content_filter"
    [] OTHER -> "stop"

\* C21: response.completed writes exactly one chunk, with an empty delta and
\* a finish_reason that is tool_calls exactly when a call slot was used
\* before and the reason of the status otherwise; the chunk has usage
\* exactly when the response of the event has.
C21_CompletedChunk ==
  \A r \in AllRequests :
    Converting(r) /\ backend[r] = "openai" =>
      LET ev == TerminalEvents(r)
      IN /\ SelectSeq(sink[r], IsNotDoneItem) = ItemsUpTo(r, ev, Len(ev))
         /\ \A k \in DOMAIN ev :
              ev[k] \in CompletedTokens =>
                /\ Len(ItemsAt(r, ev, k)) = 1
                /\ ItemsAt(r, ev, k)[1].kind = "chunk"
                /\ ItemsAt(r, ev, k)[1].delta = "none"
                /\ ~ItemsAt(r, ev, k)[1].role
                /\ ItemsAt(r, ev, k)[1].finish_reason =
                     IF SlotUsedBefore(r, ev, k) THEN "tool_calls"
                     ELSE StatusReason(ev[k])
                /\ ItemsAt(r, ev, k)[1].usage
                     = CodexDoc(ev[k]).response.usage
                /\ SlotUsedBefore(r, ev, k)
                     <=> streamState[r].functionCallIndex >= 0
                         /\ \E j \in 1..(k - 1) :
                              ev[j] \in {"{added A}", "{done B}"}

\* C21 witness: a completed event without usage after a tool call, then one
\* with usage
C21_Witness ==
  \E r \in AllRequests :
    /\ Converting(r) /\ backend[r] = "openai"
    /\ TerminalEvents(r) = <<"{added A}", "{completed no usage}", "{completed}">>
    /\ Len(sink[r]) = 3
    /\ sink[r][2].finish_reason = "tool_calls" /\ ~sink[r][2].usage
    /\ sink[r][3].usage

\* C22: response.failed / response.incomplete with status failed writes
\* one error event and no chunk with a finish_reason; with another status
\* it writes one terminal chunk whose finish_reason is the reason of the
\* status, also when tool calls were written before.
C22_ErrorEventOrStatusReason ==
  \A r \in AllRequests :
    Converting(r) /\ backend[r] = "openai" =>
      LET ev == TerminalEvents(r)
      IN \A k \in DOMAIN ev :
           ev[k] \in ErrorTokens =>
             /\ Len(ItemsAt(r, ev, k)) = 1
             /\ IF CodexDoc(ev[k]).response.status = "failed"
                THEN ItemsAt(r, ev, k)[1].kind = "error"
                ELSE /\ ItemsAt(r, ev, k)[1].kind = "chunk"
                     /\ ItemsAt(r, ev, k)[1].delta = "none"
                     /\ ItemsAt(r, ev, k)[1].finish_reason =
                          StatusReason(ev[k])

\* the buffer, the stream state and the outputs of request r after its
\* first n calls of res.write
ReplayUpTo(r, n) ==
  IF backend[r] = "openai"
  THEN LET w == CodexReplay(converter[InstanceOf(r)],
                            SubSeq(Written(r), 1, n),
                  [data |-> <<>>, state |-> createStreamState, out |-> <<>>])
       IN [buffer |-> w.data, state |-> w.state, out |-> w.out]
  ELSE LET w == GeminiReplay(SubSeq(Written(r), 1, n),
                  [state |-> GeminiCreateStreamState, out |-> <<>>])
       IN [buffer |-> w.state.buffer, state |-> w.state, out |-> w.out]

\* the buffer and the outputs of request r before res.end was called
BeforeEnd(r) == ReplayUpTo(r, Len(Written(r)))

\* the frame buffer of request r
BufferOf(r) ==
  IF backend[r] = "openai" THEN sseBuffer[r] ELSE geminiStreamState[r].buffer

\* what res.end finds: the buffer and then its chunk argument
FinalText(r) ==
  BeforeEnd(r).buffer \o ReplaceCRLF(received[r][Len(received[r])])

\* what res.end wrote
WrittenByEnd(r) ==
  SubSeq(sink[r], Len(BeforeEnd(r).out) + 1, Len(sink[r]))

\* C23: at the end of a stream without error status the text left in the
\* buffer, with the chunk given to res.end after it, is handled as one last
\* frame: the outputs of its data lines are written in order after what was
\* written before and ahead of the one [DONE], and the buffer is left
\* without a data line.
C23_ResidueFlushedBeforeDone ==
  \A r \in AllRequests :
    phase[r] = "ended" /\ Converting(r) /\ backend[r] \in {"openai", "gemini"}
    => /\ SubSeq(sink[r], 1, Len(BeforeEnd(r).out)) = BeforeEnd(r).out
       /\ WrittenByEnd(r) # <<>>
       /\ WrittenByEnd(r)[Len(WrittenByEnd(r))] = DoneItem
       /\ LabelsOf(SubSeq(WrittenByEnd(r), 1, Len(WrittenByEnd(r)) - 1),
                   ItemLabel)
            = LabelsOf(SplitLines(FinalText(r)), LineLabel)
       /\ LabelsOf(SplitLines(BufferOf(r)), LineLabel) = <<>>

\* C23 witness: res.end found an unterminated data line in the buffer and
\* got another as its chunk, and wrote the outputs of both before [DONE]
C23_Witness ==
  \E r \in AllRequests :
    /\ phase[r] = "ended" /\ Converting(r) /\ backend[r] = "gemini"
    /\ Trim(BeforeEnd(r).buffer) # <<>>
    /\ received[r][Len(received[r])] # <<>>
    /\ Len(WrittenByEnd(r)) = 3
    /\ WrittenByEnd(r)[1].kind = "chunk" /\ WrittenByEnd(r)[2].kind = "chunk"

\* what the n-th res.write of request r wrote to the client
WrittenByWrite(r, n) ==
  SubSeq(ReplayUpTo(r, n).out, Len(ReplayUpTo(r, n - 1).out) + 1,
         Len(ReplayUpTo(r, n).out))

IsHeartbeat(it) == it.kind = "heartbeat"

\* C24: for both streaming backends a blank chunk that arrives when the
\* buffer is empty is written to the client as it is, and leaves the buffer
\* and the stream state as they were; one that arrives when the buffer is
\* not empty is not forwarded but appended to the buffer.
C24_HeartbeatOnlyWhenBufferEmpty ==
  \A r \in AllRequests :
    Converting(r) /\ backend[r] \in {"openai", "gemini"}
    /\ phase[r] = "streaming" =>
      /\ sink[r] = ReplayUpTo(r, Len(Written(r))).out
      /\ \A n \in DOMAIN Written(r) :
           Written(r)[n] # <<>> /\ Trim(Written(r)[n]) = <<>> =>
             IF ReplayUpTo(r, n - 1).buffer = <<>>
             THEN /\ Len(WrittenByWrite(r, n)) = 1
                  /\ IsHeartbeat(WrittenByWrite(r, n)[1])
                  /\ WrittenByWrite(r, n)[1].payload = Written(r)[n]
                  /\ ReplayUpTo(r, n).buffer = <<>>
                  /\ ReplayUpTo(r, n).state = ReplayUpTo(r, n - 1).state
             ELSE SelectSeq(WrittenByWrite(r, n), IsHeartbeat) = <<>>

IsCandidateToken(t) == t \in CandidateTokens

\* the frames of SpecCandidates request r has received, in order
CandidateEvents(r) == SelectSeq(Flatten(Written(r)), IsCandidateToken)

\* the index of the candidate at position i of a frame: its index field,
\* or its place in the list
IndexOfCandidate(doc, i) ==
  IF doc.candidates[i].index # -1 THEN doc.candidates[i].index ELSE i - 1

\* the candidates of a frame that have a function-call part
CandidatesCalling(doc) ==
  {IndexOfCandidate(doc, i) : i \in
     {j \in DOMAIN doc.candidates :
        \E p \in DOMAIN doc.candidates[j].parts :
          doc.candidates[j].parts[p].functionCall # ""}}

\* the positions of the candidates of a frame that have a finishReason
Finishing(doc) ==
  {i \in DOMAIN doc.candidates : doc.candidates[i].finishReason # ""}
NthFinishing(doc, n) ==
  CHOOSE i \in Finishing(doc) :
    Cardinality({j \in Finishing(doc) : j < i}) = n - 1

\* the reason of a native finish reason of the frames of SpecCandidates
NativeReason(reason) ==
  CASE reason = "STOP" -> "stop"
    [] reason = "MAX_TOKENS" -> "length"
    [] reason = "SAFETY" -> "content_filter"

\* C25: the terminal chunk written for candidate c has finish_reason
\* tool_calls exactly when a function-call part of candidate c came in an
\* earlier frame or in the same frame, and the mapped native reason
\* otherwise; function calls of other candidates do not count.
C25_ToolCallsReasonPerCandidate ==
  \A r \in AllRequests :
    Converting(r) /\ backend[r] = "gemini" =>
      LET ev == CandidateEvents(r)
      IN /\ SelectSeq(sink[r], IsNotDoneItem) = ItemsUpTo(r, ev, Len(ev))
         /\ \A k \in DOMAIN ev :
              LET doc == GeminiDoc(ev[k])
                  fin == SelectSeq(ItemsAt(r, ev, k), IsTerminal)
                  called == UNION {CandidatesCalling(GeminiDoc(ev[j])) :
                                     j \in 1..k}
              IN /\ Len(fin) = Cardinality(Finishing(doc))
                 /\ \A n \in DOMAIN fin :
                      LET i == NthFinishing(doc, n)
                          c == IndexOfCandidate(doc, i)
                      IN /\ fin[n].index = c
                         /\ fin[n].finish_reason =
                              IF c \in called THEN "tool_calls"
                              ELSE NativeReason(doc.candidates[i].finishReason)

\* C25 witness: candidate 1 called a function, then candidate 0 finished
\* with length and candidate 1 with tool_calls
C25_Witness ==
  \E r \in AllRequests :
    /\ Converting(r) /\ backend[r] = "gemini"
    /\ CandidateEvents(r) = <<"{g call c1}", "{g finish max}", "{g finish c1}">>
    /\ Len(sink[r]) = 3
    /\ sink[r][2].index = 0 /\ sink[r][2].finish_reason = "length"
    /\ sink[r][3].index = 1 /\ sink[r][3].finish_reason = "tool_calls"

IsUsageToken(t) == t \in UsageTokens

\* the frames of SpecUsage request r has received, in order
UsageEvents(r) == SelectSeq(Flatten(Written(r)), IsUsageToken)

\* C26: a Gemini frame with usageMetadata and no candidates writes exactly
\* one chunk, with an empty delta, the usage mapped from its counts and a
\* finish_reason that is not null; a frame with neither writes nothing.
C26_UsageOnlyFrame ==
  \A r \in AllRequests :
    Converting(r) /\ backend[r] = "gemini" =>
      LET ev == UsageEvents(r)
      IN /\ SelectSeq(sink[r], IsNotDoneItem) = ItemsUpTo(r, ev, Len(ev))
         /\ \A k \in DOMAIN ev :
              LET doc == GeminiDoc(ev[k])
              IN doc.candidates = <<>> =>
                   IF doc.usageMetadata
                   THEN /\ Len(ItemsAt(r, ev, k)) = 1
                        /\ ItemsAt(r, ev, k)[1].kind = "chunk"
                        /\ ItemsAt(r, ev, k)[1].delta = "none"
                        /\ ~ItemsAt(r, ev, k)[1].role
                        /\ ItemsAt(r, ev, k)[1].finish_reason \in FinishReasons
                        /\ ItemsAt(r, ev, k)[1].usage
                        /\ ItemsAt(r, ev, k)[1].usage_tokens =
                             [prompt_tokens |-> doc.counts.promptTokenCount,
                              completion_tokens |->
                                doc.counts.candidatesTokenCount
                                  + doc.counts.thoughtsTokenCount,
                              total_tokens |-> doc.counts.totalTokenCount,
                              reasoning_tokens |->
                                doc.counts.thoughtsTokenCount,
                              cached_tokens |->
                                doc.counts.cachedContentTokenCount]
                   ELSE ItemsAt(r, ev, k) = <<>>

\* C26 witness: a frame with nothing, then text, then usageMetadata alone
C26_Witness ==
  \E r \in AllRequests :
    /\ Converting(r) /\ backend[r] = "gemini"
    /\ UsageEvents(r) = <<"{g empty}", "{g text}", "{g usage}">>
    /\ Len(sink[r]) = 2
    /\ sink[r][2].usage /\ sink[r][2].finish_reason = "stop"

\* C27: every name of the list that is at most 64 long is mapped to itself
\* by _buildShortNameMap, whatever the other names and their order.
C27_ShortNamesUnchanged ==
  \A r \in AllRequests :
    backend[r] = "openai" /\ converter[InstanceOf(r)].mapBuilt =>
      LET m == converter[InstanceOf(r)]._toolNameMap
      IN \A i \in DOMAIN body[r].tools :
           Len(body[r].tools[i]) <= LIMIT =>
             m[body[r].tools[i]] = body[r].tools[i]

\* the short names given to the names before position i of the list
UsedBefore(m, names, i) == {m[names[j]] : j \in 1..(i - 1)}

\* the names before position i that have the base candidate of names[i]
SameBaseBefore(names, i) ==
  {j \in 1..(i - 1) : baseCandidate(names[j]) = baseCandidate(names[i])}

\* base cut to leave room for the suffix, followed by '_n'
Suffixed(base, n) ==
  LET suffix == <<"_">> \o Decimal(n)
  IN (IF Len(base) > LIMIT - Len(suffix)
      THEN SubSeq(base, 1, LIMIT - Len(suffix)) ELSE base) \o suffix

\* the smallest n >= 1 whose suffixed form is not in used
SmallestFree(base, used) ==
  CHOOSE n \in 1..(Cardinality(used) + 1) :
    /\ Suffixed(base, n) \notin used
    /\ \A k \in 1..(n - 1) : Suffixed(base, k) \in used

\* C28 as stated: of the names with one base candidate the first keeps the
\* base, and each later one gets the base cut to 64 less the length of the
\* suffix, followed by '_n' for the smallest n >= 1 not yet used; names
\* that differ beyond character 64 only get distinct short names.
C28_FirstKeepsBase ==
  \A r \in AllRequests :
    backend[r] = "openai" /\ converter[InstanceOf(r)].mapBuilt =>
      LET m == converter[InstanceOf(r)]._toolNameMap
          names == body[r].tools
      IN /\ \A i \in DOMAIN names :
              m[names[i]] =
                IF SameBaseBefore(names, i) = {}
                THEN baseCandidate(names[i])
                ELSE Suffixed(baseCandidate(names[i]),
                       SmallestFree(baseCandidate(names[i]),
                                    UsedBefore(m, names, i)))
         /\ \A i, j \in DOMAIN names : i # j => m[names[i]] # m[names[j]]

\* C28 amended: a name keeps its base candidate when no earlier name of the
\* list was given it as short name, and otherwise gets the base cut to 64
\* less the length of the suffix, followed by '_n' for the smallest n >= 1
\* whose form no earlier name was given; all short names are distinct.
C28_BaseUnlessTaken ==
  \A r \in AllRequests :
    backend[r] = "openai" /\ converter[InstanceOf(r)].mapBuilt =>
      LET m == converter[InstanceOf(r)]._toolNameMap
          names == body[r].tools
      IN /\ \A i \in DOMAIN names :
              m[names[i]] =
                IF baseCandidate(names[i]) \notin UsedBefore(m, names, i)
                THEN baseCandidate(names[i])
                ELSE Suffixed(baseCandidate(names[i]),
                       SmallestFree(baseCandidate(names[i]),
                                    UsedBefore(m, names, i)))
         /\ \A i \in DOMAIN names : Len(m[names[i]]) <= LIMIT
         /\ \A i, j \in DOMAIN names : i # j => m[names[i]] # m[names[j]]

\* C28 witness: two groups of names that differ beyond character 64 only;
\* the first name of the second group finds its base taken and gets '_2'
C28_Witness ==
  \E r \in AllRequests :
    /\ backend[r] = "openai" /\ converter[InstanceOf(r)].mapBuilt
    /\ body[r].tools = <<NameA65b, NameA65c, NameA62s1y, NameA62s1z>>
    /\ converter[InstanceOf(r)]._toolNameMap[NameA65c] = NameA62s1
    /\ converter[InstanceOf(r)]._toolNameMap[NameA62s1y]
         = Suffixed(NameA62s1, 2)
    /\ converter[InstanceOf(r)]._toolNameMap[NameA62s1z]
         = Suffixed(NameA62s1, 3)

\* the tool calls of all choices of a completion, in order
RECURSIVE ToolCallsOf(_)
ToolCallsOf(choices) ==
  IF choices = <<>> THEN <<>>
  ELSE choices[1].tool_calls \o ToolCallsOf(Tail(choices))

\* C29: in one non-streaming Gemini response the ids of the generated tool
\* calls are pairwise distinct over the whole response, also when two
\* candidates call the same function within one clock tick.
C29_ToolCallIdsDistinct ==
  \A r \in AllRequests :
    backend[r] = "gemini" =>
      \A k \in DOMAIN sink[r] :
        IsCompletion(sink[r][k]) =>
          LET calls == ToolCallsOf(sink[r][k].choices)
          IN \A i, j \in DOMAIN calls : i # j => calls[i].id # calls[j].id

\* the same within each choice only: the counter separates the calls of one
\* candidate
C29_ToolCallIdsDistinctPerChoice ==
  \A r \in AllRequests :
    backend[r] = "gemini" =>
      \A k \in DOMAIN sink[r] :
        IsCompletion(sink[r][k]) =>
          \A c \in DOMAIN sink[r][k].choices :
            LET calls == sink[r][k].choices[c].tool_calls
            IN \A i, j \in DOMAIN calls : i # j => calls[i].id # calls[j].id

IsToolMessage(msg) == msg.role = "tool"
IsFunctionResponse(content) ==
  Len(content.parts) = 1 /\ content.parts[1].kind = "functionResponse"

\* the assistant tool calls of the list, by message and position
AssistantCalls(messages) ==
  {<<i, k>> \in (DOMAIN messages) \X (1..3) :
     /\ messages[i].role = "assistant"
     /\ k \in DOMAIN messages[i].tool_calls}

\* the function names of the assistant tool calls that have the id
NamesOfId(messages, id) ==
  {messages[c[1]].tool_calls[c[2]].name :
     c \in {c \in AssistantCalls(messages) :
              /\ messages[c[1]].tool_calls[c[2]].id = id
              /\ messages[c[1]].tool_calls[c[2]].hasFunction
              /\ messages[c[1]].tool_calls[c[2]].name # ""}}

\* the tool messages of the request and the functionResponse contents built
\* for them, both in order
ToolMessages(b) == SelectSeq(b.messages, IsToolMessage)
FunctionResponses(b) == SelectSeq(b.contents, IsFunctionResponse)

\* C30 as stated: each tool message becomes a functionResponse part named
\* by the function name of an assistant tool call with the same id anywhere
\* in the list, and by its tool_call_id when no assistant tool call has it.
C30_NameOrToolCallId ==
  \A r \in AllRequests :
    backend[r] = "gemini" =>
      LET tools == ToolMessages(body[r])
          resp == FunctionResponses(body[r])
      IN /\ Len(resp) = Len(tools)
         /\ \A k \in DOMAIN tools :
              LET called == NamesOfId(body[r].messages,
                                      tools[k].tool_call_id)
              IN IF called # {} THEN resp[k].parts[1].name \in called
                 ELSE resp[k].parts[1].name = tools[k].tool_call_id

\* C30 amended: each tool message becomes a functionResponse part named by
\* the function name of an assistant tool call with the same id anywhere
\* in the list; when no assistant tool call with a function name has that
\* id, the name is the name field of the tool message, and 'unknown' when
\* it has none.
C30_NameOrOwnNameOrUnknown ==
  \A r \in AllRequests :
    backend[r] = "gemini" =>
      LET tools == ToolMessages(body[r])
          resp == FunctionResponses(body[r])
      IN /\ Len(resp) = Len(tools)
         /\ \A k \in DOMAIN tools :
              LET called == NamesOfId(body[r].messages,
                                      tools[k].tool_call_id)
              IN /\ resp[k].parts[1].value = tools[k].content
                 /\ IF called # {} THEN resp[k].parts[1].name \in called
                    ELSE IF tools[k].name # ""
                    THEN resp[k].parts[1].name = tools[k].name
                    ELSE resp[k].parts[1].name = "unknown"

\* C30 witness: a tool message ahead of the assistant message whose tool
\* call it answers, next to one with an unknown id and one with a name of
\* its own
C30_Witness ==
  \E r \in AllRequests :
    /\ backend[r] = "gemini"
    /\ Len(body[r].messages) = 3
    /\ body[r].messages[1].role = "tool"
    /\ body[r].messages[1].tool_call_id = "call_1"
    /\ body[r].messages[2].role = "tool"
    /\ body[r].messages[2].tool_call_id = "call_9"
    /\ body[r].messages[3].role = "assistant"
    /\ Len(body[r].contents) = 3
    /\ body[r].contents[1].parts[1].name = "f"
    /\ body[r].contents[2].parts[1].name = "unknown"

IsSystemWithText(msg) ==
  msg.role \in {"system", "developer"} /\ msg.content \notin {<<>>, <<"">>}
IsNotSystem(msg) == msg.role \notin {"system", "developer"}

RECURSIVE TextPartsOf(_)
\* the text of each message of the list as a text part
TextPartsOf(messages) ==
  IF messages = <<>> THEN <<>>
  ELSE <<RequestPart("text", "", messages[1].content[1])>>
         \o TextPartsOf(Tail(messages))

\* the blocks of the user, assistant and tool messages of a request
OtherBlocks(b) ==
  buildGeminiRequestFromOpenAI(
    [b EXCEPT !.messages = SelectSeq(b.messages, IsNotSystem)]).contents

\* C31: with at least one system or developer message that has text, the
\* system parts are the one user block of contents and there is no
\* system_instruction when no other message produced a block; otherwise
\* they are the system_instruction and contents holds the other blocks
\* only.  contents is never empty then.
C31_SystemPartsPlaced ==
  \A r \in AllRequests :
    backend[r] = "gemini"
    /\ SelectSeq(body[r].messages, IsSystemWithText) # <<>> =>
      LET parts == TextPartsOf(SelectSeq(body[r].messages, IsSystemWithText))
          others == OtherBlocks(body[r])
      IN /\ body[r].contents # <<>>
         /\ IF others = <<>>
            THEN /\ body[r].contents = <<[role |-> "user", parts |-> parts]>>
                 /\ body[r].systemInstruction = <<>>
            ELSE /\ body[r].contents = others
                 /\ body[r].systemInstruction = parts

\* C31 witness: system messages alone (next to a user message without
\* content), folded into the one user block
C31_Witness ==
  \E r \in AllRequests :
    /\ backend[r] = "gemini"
    /\ Len(body[r].messages) = 3
    /\ body[r].messages[1].role = "system"
    /\ body[r].messages[2] = ChatMessage("user", <<>>, <<>>, "", "")
    /\ body[r].messages[3].role = "developer"
    /\ body[r].systemInstruction = <<>>
    /\ body[r].contents =
         <<[role |-> "user",
            parts |-> <<RequestPart("text", "", "S"),
                        RequestPart("text", "", "D")>>]>>

\* the finish_reason of the status of each response of ConvertJsonTokens
JsonStatusReason(tok) ==
  CASE tok \in {"{j incomplete}", "{j incomplete call}"} -> "length"
    [] tok = "{j filter}" -> "content_filter"
    [] OTHER -> "stop"

HasFunctionCall(output) ==
  \E i \in DOMAIN output : output[i].type = "function_call"

\* C32: the conversion of a non-streaming Codex response whose status is
\* failed is an error object without choices, raw or wrapped and whatever
\* its output items; of any other status it is a chat.completion with
\* exactly one choice, whose finish_reason is tool_calls if an item is a
\* function_call and the reason of the status otherwise.
C32_FailedIsErrorElseOneChoice ==
  \A r \in AllRequests :
    (/\ backend[r] = "openai"
     /\ statusCode[r] < 400
     /\ received[r] # <<>>
     /\ received[r][1][1] \in ConvertJsonTokens) =>
      LET tok == received[r][1][1]
          doc == CodexJsonDoc(tok)
          out == sink[r][1]
      IN /\ Len(sink[r]) = 1
         /\ IF doc.resp.status = "failed"
            THEN out.kind = "error" /\ out.choices = <<>>
            ELSE /\ out.kind = "completion"
                 /\ Len(out.choices) = 1
                 /\ out.choices[1].index = 0
                 /\ out.choices[1].finish_reason =
                      IF HasFunctionCall(doc.output) THEN "tool_calls"
                      ELSE JsonStatusReason(tok)

\* C32 witness: a raw failed response with a function_call item answered
\* by the error object, and a wrapped incomplete one with a function_call
\* item is possible too
C32_Witness ==
  \E r \in AllRequests :
    /\ backend[r] = "openai"
    /\ statusCode[r] < 400
    /\ received[r] = <<<<"{j failed call}">>>>
    /\ sink[r][1].kind = "error"

\* the names of the tools and of the assistant tool calls of a request
NamesOfBody(b) == {b.tools[i] : i \in DOMAIN b.tools}
                    \cup {b.toolCalls[i] : i \in DOMAIN b.toolCalls}

\* both maps of the converter are those of the names of the request
TableOfRequest(r) ==
  LET conv == converter[InstanceOf(r)]
  IN /\ conv.mapBuilt = (NamesOfBody(body[r]) # {})
     /\ DOMAIN conv._toolNameMap = NamesOfBody(body[r])
     /\ \A n \in NamesOfBody(body[r]) :
          conv._toolNameMap[n] # n =>
            /\ conv._toolNameMap[n] \in DOMAIN conv._reverseToolNameMap
            /\ conv._reverseToolNameMap[conv._toolNameMap[n]] = n

\* C33: in every step of an openai request whose interceptors are in
\* place, the maps of its converter are already those built from its own
\* body, so no event is restored before buildRequestFromOpenAI has run; and
\* from its first backend chunk on no step changes the reverse map.
C33_TableBuiltFirstAndFrozen ==
  [][\A r \in AllRequests :
       backend[r] = "openai" /\ phase[r] \in {"streaming", "ended"} =>
         /\ TableOfRequest(r)
         /\ received[r] # <<>> =>
              converter'[InstanceOf(r)]._reverseToolNameMap
                = converter[InstanceOf(r)]._reverseToolNameMap]_vars

\* C33 witness: request 1 has had a call restored to its long name and has
\* ended, while request 2, with other tools, is streaming
C33_Witness ==
  /\ backend[1] = "openai" /\ phase[1] = "ended"
  /\ backend[2] = "openai" /\ phase[2] = "streaming"
  /\ body[1].tools # body[2].tools
  /\ received[2] # <<>>
  /\ \E i \in DOMAIN sink[1] :
       sink[1][i].kind = "chunk" /\ sink[1][i].tool.name = body[1].tools[1]

RECURSIVE UnterminatedTail(_)
\* what follows the last separator of a text read from the left
UnterminatedTail(text) ==
  IF IndexOfSeparator(text) = 0 THEN text
  ELSE UnterminatedTail(SubSeq(text, IndexOfSeparator(text) + 2, Len(text)))

IsSuffix(s, t) ==
  Len(s) <= Len(t) /\ s = SubSeq(t, Len(t) - Len(s) + 1, Len(t))

RECURSIVE NormalizedInput(_)
\* the chunks received, each as the interceptor appends it
NormalizedInput(chunks) ==
  IF chunks = <<>> THEN <<>>
  ELSE ReplaceCRLF(chunks[1]) \o NormalizedInput(Tail(chunks))

IsToolDelta(it) == it.kind = "chunk" /\ it.delta = "tool_calls"

\* C35: every chunk with a tool_calls delta written by the Codex converter
\* has an index >= 0 that is the slot of a call announced by that chunk or
\* an earlier one, also when the argument events come before any
\* output_item.added.
C35_ToolDeltaIndexAnnounced ==
  \A r \in AllRequests :
    Converting(r) /\ backend[r] = "openai" =>
      \A i \in Positions(r, IsToolDelta) :
        /\ sink[r][i].tool.index >= 0
        /\ \E j \in Positions(r, IsAnnouncement) :
             j <= i /\ sink[r][j].tool.index = sink[r][i].tool.index

\* the same for streams in which an output_item.added precedes every
\* argument event
C35_ToolDeltaIndexAfterAdded ==
  \A r \in AllRequests :
    /\ Converting(r) /\ backend[r] = "openai"
    /\ received[r] # <<>>
    /\ received[r][1] \in {Frame("{added A}"), Frame("{added B}")}
    => \A i \in Positions(r, IsToolDelta) :
         /\ sink[r][i].tool.index >= 0
         /\ \E j \in Positions(r, IsAnnouncement) :
              j <= i /\ sink[r][j].tool.index = sink[r][i].tool.index

\* the characters of an argument fragment
CharsOf(fragment) ==
  CASE fragment = "" -> <<>>
    [] fragment = "xy" -> <<"x", "y">>
    [] fragment = "{}" -> <<"{", "}">>
    [] OTHER -> <<fragment>>

RECURSIVE ArgumentTextAt(_, _)
\* the argument fragments of the chunks with the index, joined in order
ArgumentTextAt(items, index) ==
  IF items = <<>> THEN <<>>
  ELSE (IF IsToolDelta(items[1]) /\ items[1].tool.index = index
        THEN CharsOf(items[1].tool.arguments) ELSE <<>>)
         \o ArgumentTextAt(Tail(items), index)

\* the full arguments of the call whose events are the chunk
FullArguments(chunk) ==
  IF \E c \in CallsOfA : chunk = Frames(c) THEN <<"x", "y">> ELSE <<"z">>

WithAdded(chunk) ==
  \E c \in CallsOfA \cup CallsOfB :
    chunk = Frames(c) /\ c[1] \in {"{added A}", "{added B}"}

\* C36: for every function call of a Codex stream the argument fragments
\* written with the index of its slot, the announcement's included, join
\* to the full arguments of the call, once, in each ordering: added, deltas,
\* done; added, done; deltas, done without added.
C36_ArgumentsOncePerSlot ==
  \A r \in AllRequests :
    Converting(r) /\ backend[r] = "openai" =>
      \A k \in DOMAIN Written(r) :
        ArgumentTextAt(sink[r], k - 1) = FullArguments(Written(r)[k])

\* the same for streams in which every call starts with output_item.added
C36_ArgumentsOnceWithAdded ==
  \A r \in AllRequests :
    /\ Converting(r) /\ backend[r] = "openai"
    /\ \A k \in DOMAIN Written(r) : WithAdded(Written(r)[k])
    => \A k \in DOMAIN Written(r) :
         ArgumentTextAt(sink[r], k - 1) = FullArguments(Written(r)[k])

IsInertFrame(chunk) == \E tok \in InertTokens : chunk = Frame(tok)

\* C37: a Codex event without type, of an unrecognized type, a
\* reasoning_summary_text.done, and an output_item.added or
\* output_item.done whose item is missing or no function_call leave the
\* stream state as it was and write nothing.
C37_InertEventsChangeNothing ==
  \A r \in AllRequests :
    Converting(r) /\ backend[r] = "openai" =>
      \A k \in DOMAIN Written(r) :
        IsInertFrame(Written(r)[k]) =>
          /\ ReplayUpTo(r, k).state = ReplayUpTo(r, k - 1).state
          /\ ReplayUpTo(r, k).out = ReplayUpTo(r, k - 1).out
          /\ k = Len(Written(r)) /\ phase[r] = "streaming" =>
               streamState[r] = ReplayUpTo(r, k - 1).state

\* C37 witness: an output_item.done of a message item right after a call
\* was announced: the call stays announced and nothing more is written
C37_Witness ==
  \E r \in AllRequests :
    /\ backend[r] = "openai" /\ phase[r] = "streaming"
    /\ statusCode[r] < 400
    /\ received[r] = <<Frame("{added A}"), Frame("{done message}")>>
    /\ streamState[r].hasToolCallAnnounced
    /\ streamState[r].functionCallIndex = 0
    /\ Len(sink[r]) = 1

IsUnsupportedBackend(it) ==
  it.kind = "json" /\ it.payload = <<"{unsupported_backend}">>

\* C38 as stated: detectBackendFromModel returns claude, gemini or openai
\* for every input, and no request is answered unsupported_backend.
C38_AlwaysOneOfThree ==
  \A r \in AllRequests :
    phase[r] # "idle" =>
      /\ detectBackendFromModel(RequestedModel(body[r])) \in Backends
      /\ Positions(r, IsUnsupportedBackend) = {}

\* C38 amended: for every model name that is a string or missing
\* detectBackendFromModel returns claude, gemini or openai and that branch
\* is taken; for a model that is no string it throws and the request is
\* answered 500 internal_error; no request is answered unsupported_backend.
C38_NeverUnsupportedBackend ==
  \A r \in AllRequests :
    phase[r] # "idle" =>
      /\ Positions(r, IsUnsupportedBackend) = {}
      /\ IF IsStringValue(body[r].model)
         THEN /\ backend[r] \in Backends
              /\ backend[r] = detectBackendFromModel(RequestedModel(body[r]))
              /\ phase[r] # "failed"
         ELSE /\ phase[r] = "failed"
              /\ statusCode[r] = 500
              /\ sink[r] = <<JsonItem("{internal_error}")>>

\* C38 witness: a request for a model of no known prefix, taken by the
\* claude branch
C38_Witness ==
  \E r \in AllRequests :
    /\ body[r].model = <<"o", "3">>
    /\ phase[r] = "handled"
    /\ backend[r] = "claude"

====
